---------------------------- MODULE Spec2Model ----------------------------
(***************************************************************************)
(* A model of the llkms document-to-index pipeline:                        *)
(*   - DocumentProcessingPipeline.process_s3_bucket_async and              *)
(*     async_process_file            (src/src/llkms/main.py)               *)
(*   - VectorStoreManager.exists/save/load                                 *)
(*                   (src/src/llkms/utils/langchain/vector_store_manager.py)*)
(*   - DocumentProcessor.create_vector_store                               *)
(*                   (src/src/llkms/utils/langchain/document_processor.py) *)
(*   - RAGPipeline.__init__ and ModelFactory.create_model                  *)
(*                   (src/src/llkms/utils/langchain/rag_pipeline.py,       *)
(*                    src/src/llkms/utils/langchain/model_factory.py)      *)
(*   - run_interactive_query and main()                                    *)
(*                   (src/src/llkms/utils/interactive_query.py, main.py)   *)
(* Spec is one call of process_s3_bucket_async on a cache directory as an  *)
(* earlier run can have left it.  SpecRuns is a sequence of program runs   *)
(* on the same cache directory; a run may be killed at any step (Crash,    *)
(* CrashInSave), which leaves the cache directory as it was at that        *)
(* moment.  SpecMain is one run of main(): the call, the interactive       *)
(* session and the finally block; SpecMainFair adds that the finally block *)
(* runs to its end.  SpecFactory, SpecUsage and SpecChunks apply           *)
(* create_model, _update_usage and the processors of DocumentProcessor to  *)
(* inputs drawn from bounded sets.                                         *)
(***************************************************************************)
EXTENDS Integers, Sequences, FiniteSets, TLC

(***************************************************************************)
(* Bounds of the model.                                                    *)
(***************************************************************************)
\* the largest number of keys one listing returns
MaxFiles == 2
\* the largest number of chunks the extraction of one file returns
MaxChunks == 2
\* the number of program runs in one behaviour
MaxRuns == 2
\* the retrieval depth k of the retriever and the largest query embedding
TopK == 2
MaxQuery == 1
\* the number of significant bits of a float of the model
Precision == 3
\* the largest number of usage records merged in one behaviour of SpecUsage
MaxRecords == 3
\* the largest number of questions asked in one session
MaxQuestions == 2
\* the largest number of characters of one extracted content
MaxLength == 2000

(***************************************************************************)
(* Keys.  A key is a sequence of characters, so that lower() and           *)
(* endswith() are computed on it.  SampleKeys lists the keys of the bucket  *)
(* in the order the object store returns them.                             *)
(***************************************************************************)
SampleKeys ==
    << <<"a", ".", "t", "x", "t">>,
       <<"b", ".", "P", "D", "F">>,
       <<"c", ".", "d", "o", "c", "x">>,
       <<"d", ".", "b", "i", "n">>,
       <<"e", "/">> >>

\* str.lower() on one character
LowerChar(c) ==
    CASE c = "A" -> "a"
      [] c = "B" -> "b"
      [] c = "C" -> "c"
      [] c = "D" -> "d"
      [] c = "E" -> "e"
      [] c = "F" -> "f"
      [] c = "G" -> "g"
      [] c = "H" -> "h"
      [] c = "I" -> "i"
      [] c = "J" -> "j"
      [] c = "K" -> "k"
      [] c = "L" -> "l"
      [] c = "M" -> "m"
      [] c = "N" -> "n"
      [] c = "O" -> "o"
      [] c = "P" -> "p"
      [] c = "Q" -> "q"
      [] c = "R" -> "r"
      [] c = "S" -> "s"
      [] c = "T" -> "t"
      [] c = "U" -> "u"
      [] c = "V" -> "v"
      [] c = "W" -> "w"
      [] c = "X" -> "x"
      [] c = "Y" -> "y"
      [] c = "Z" -> "z"
      [] OTHER -> c

\* str.lower()
Lower(s) == [i \in 1..Len(s) |-> LowerChar(s[i])]

\* str.endswith(suffix)
EndsWith(s, suffix) ==
    /\ Len(s) >= Len(suffix)
    /\ SubSeq(s, Len(s) - Len(suffix) + 1, Len(s)) = suffix

\* str.endswith(tuple of suffixes)
EndsWithAny(s, suffixes) == \E suffix \in suffixes : EndsWith(s, suffix)

\* the routing as it would be without lower()
Route_CaseSensitive(file_key) ==
    LET k == file_key IN
    IF EndsWith(k, <<".", "t", "x", "t">>) THEN "text"
    ELSE IF EndsWith(k, <<".", "p", "d", "f">>) THEN "pdf"
    ELSE IF EndsWithAny(k, { <<".", "p", "n", "g">>, <<".", "j", "p", "g">>,
                             <<".", "j", "p", "e", "g">> }) THEN "image"
    ELSE IF EndsWith(k, <<".", "d", "o", "c", "x">>) THEN "docx"
    ELSE IF EndsWithAny(k, { <<".", "h", "t", "m", "l">>, <<".", "h", "t", "m">> })
         THEN "html"
    ELSE "unsupported"

\* the branch async_process_file takes for a key, after the download
Route(file_key) ==
    LET k == Lower(file_key) IN
    IF EndsWith(k, <<".", "t", "x", "t">>) THEN "text"
    ELSE IF EndsWith(k, <<".", "p", "d", "f">>) THEN "pdf"
    ELSE IF EndsWithAny(k, { <<".", "p", "n", "g">>, <<".", "j", "p", "g">>,
                             <<".", "j", "p", "e", "g">> }) THEN "image"
    ELSE IF EndsWith(k, <<".", "d", "o", "c", "x">>) THEN "docx"
    ELSE IF EndsWithAny(k, { <<".", "h", "t", "m", "l">>, <<".", "h", "t", "m">> })
         THEN "html"
    ELSE "unsupported"

\* process_docx and process_html catch every exception and return []
CatchesOwnErrors(route) == route \in {"docx", "html"}

\* the directory-marker test of process_s3_bucket_async
IsDirectoryKey(file_key) == EndsWith(file_key, <<"/">>)

(***************************************************************************)
(* Chunks, embeddings and the vector store.                                *)
(***************************************************************************)
\* the pos-th chunk the splitter cut out of the content of file_key
Chunk(file_key, pos) == [key |-> file_key, pos |-> pos]

\* the chunk list an extraction returns when it yields n chunks
ChunksOf(file_key, n) == [j \in 1..n |-> Chunk(file_key, j)]

\* the embedding capability: a fixed function of the chunk's text
Embed(chunk) == (Len(chunk.key) + 2 * chunk.pos) % 3

\* a vector store object; index holds the vectors of FAISS positions
\* 0..n-1 at sequence positions 1..n, docstore is the insertion-ordered
\* dict of the InMemoryDocstore, index_to_docstore_id the position map
NoStore ==
    [some |-> FALSE, index |-> <<>>, docstore |-> <<>>,
     index_to_docstore_id |-> <<>>]

\* FAISS.from_documents: one fresh id per document, vectors, docstore
\* entries and map entries appended in document order; build numbers the
\* call, which makes the ids fresh
FromDocuments(documents, build) ==
    [some |-> TRUE,
     index |-> [i \in 1..Len(documents) |-> Embed(documents[i])],
     docstore |-> [i \in 1..Len(documents) |->
                      [id |-> <<build, i>>, doc |-> documents[i]]],
     index_to_docstore_id |-> [i \in 0..(Len(documents) - 1) |-> <<build, i + 1>>]]

\* dict.get(field, 0)
Get(usage, field) == IF field \in DOMAIN usage THEN usage[field] ELSE 0

\* the usage create_vector_store reports for one embedding call
EmbeddingUsage(documents) ==
    [total_tokens |-> Len(documents), total_cost |-> Len(documents),
     successful_requests |-> 1]

ZeroUsage ==
    [total_tokens |-> 0, prompt_tokens |-> 0, completion_tokens |-> 0,
     total_cost |-> 0, successful_requests |-> 0]

\* total_cost is a Python float.  A float is modelled as a non-negative
\* integer number of cost units that has at most Precision significant
\* bits (a double has 53); the token counters are Python ints and exact.
RECURSIVE Ulp(_)
\* the distance between neighbouring floats at the magnitude of n
Ulp(n) == IF n < 2 ^ Precision THEN 1 ELSE 2 * Ulp(n \div 2)

\* the float nearest to n, ties to the even significand
FRound(n) ==
    LET unit == Ulp(n)
        q == n \div unit
        r == n % unit
    IN  IF 2 * r < unit THEN q * unit
        ELSE IF 2 * r > unit THEN (q + 1) * unit
        ELSE IF q % 2 = 0 THEN q * unit ELSE (q + 1) * unit

\* float addition: the exact sum, rounded
FAdd(x, y) == FRound(x + y)

\* DocumentProcessingPipeline._update_usage
UpdateUsage(total, usage) ==
    [total_tokens |-> total.total_tokens + Get(usage, "total_tokens"),
     prompt_tokens |-> total.prompt_tokens + Get(usage, "prompt_tokens"),
     completion_tokens |-> total.completion_tokens + Get(usage, "completion_tokens"),
     total_cost |-> FAdd(total.total_cost, Get(usage, "total_cost")),
     successful_requests |->
         total.successful_requests + Get(usage, "successful_requests")]


(***************************************************************************)
(* Model configuration and the provider registry.                          *)
(***************************************************************************)
\* Python's None
None == "<None>"

\* the truth value Python gives an optional string
Truthy(x) == x # None /\ x # ""

\* ModelFactory.PROVIDER_CONFIGS
PROVIDER_CONFIGS ==
    [deepseek |-> [api_base |-> "https://api.deepseek.com",
                   api_key_env |-> "DEEPSEEK_API_KEY"],
     openai |-> [api_base |-> "https://api.openai.com/v1",
                 api_key_env |-> "OPENAI_API_KEY"]]

\* the two ValueError messages of create_model, without the provider name
UnsupportedProvider == "Unsupported provider: "
ApiKeyNotFound == "API key not found for provider "

\* what a run holds before any model was constructed
NoModel ==
    [ok |-> FALSE, error |-> None, provider |-> None, api_key |-> None,
     api_base |-> None]

\* os.getenv(name): None for a variable the environment does not hold
GetEnv(env, name) == IF name \in DOMAIN env THEN env[name] ELSE None

\* create_model as it would be if it resolved the key before it looked the
\* provider up
create_model_KeyFirst(config, env) ==
    LET known == config.provider \in DOMAIN PROVIDER_CONFIGS
        api_key == IF Truthy(config.api_key) THEN config.api_key
                   ELSE IF known
                        THEN GetEnv(env, PROVIDER_CONFIGS[config.provider].api_key_env)
                        ELSE None
    IN  IF ~Truthy(api_key)
        THEN [ok |-> FALSE, error |-> ApiKeyNotFound,
              provider |-> config.provider, api_key |-> None, api_base |-> None]
        ELSE IF ~known
        THEN [ok |-> FALSE, error |-> UnsupportedProvider,
              provider |-> config.provider, api_key |-> None, api_base |-> None]
        ELSE [ok |-> TRUE, error |-> None, provider |-> config.provider,
              api_key |-> api_key,
              api_base |-> IF Truthy(config.api_base) THEN config.api_base
                           ELSE PROVIDER_CONFIGS[config.provider].api_base]

\* create_model as it would be if the environment and the registry took
\* precedence over the configuration
create_model_EnvFirst(config, env) ==
    IF config.provider \notin DOMAIN PROVIDER_CONFIGS
    THEN [ok |-> FALSE, error |-> UnsupportedProvider,
          provider |-> config.provider, api_key |-> None, api_base |-> None]
    ELSE LET provider_config == PROVIDER_CONFIGS[config.provider]
             from_env == GetEnv(env, provider_config.api_key_env)
             api_key == IF Truthy(from_env) THEN from_env ELSE config.api_key
         IN  IF ~Truthy(api_key)
             THEN [ok |-> FALSE, error |-> ApiKeyNotFound,
                   provider |-> config.provider, api_key |-> None,
                   api_base |-> None]
             ELSE [ok |-> TRUE, error |-> None, provider |-> config.provider,
                   api_key |-> api_key,
                   api_base |-> provider_config.api_base]

\* ModelFactory.create_model: the error it raises (provider is the name
\* the message ends with), or the key and base the model is constructed
\* with
create_model(config, env) ==
    IF config.provider \notin DOMAIN PROVIDER_CONFIGS
    THEN [ok |-> FALSE, error |-> UnsupportedProvider,
          provider |-> config.provider, api_key |-> None, api_base |-> None]
    ELSE LET provider_config == PROVIDER_CONFIGS[config.provider]
             api_key == IF Truthy(config.api_key) THEN config.api_key
                        ELSE GetEnv(env, provider_config.api_key_env)
         IN  IF ~Truthy(api_key)
             THEN [ok |-> FALSE, error |-> ApiKeyNotFound,
                   provider |-> config.provider, api_key |-> None,
                   api_base |-> None]
             ELSE [ok |-> TRUE, error |-> None, provider |-> config.provider,
                   api_key |-> api_key,
                   api_base |-> IF Truthy(config.api_base) THEN config.api_base
                                ELSE provider_config.api_base]

\* the configurations and environments create_model is applied to in
\* SpecFactory: a provider out of the registry, an absent, an empty and a
\* given key, an absent and a given base
SampleConfigs ==
    [provider : {"deepseek", "openai", "mistral"},
     api_key : {None, "", "sk-arg"},
     api_base : {None, "https://proxy.example/v1"}]

SampleEnvs ==
    [DEEPSEEK_API_KEY : {None, "", "sk-env-deepseek"},
     OPENAI_API_KEY : {None, "sk-env-openai"}]

\* the model configurations and process environments a run is started with
SampleRuns ==
    { [config |-> [provider |-> "deepseek", api_key |-> "sk-arg", api_base |-> None],
       env |-> [DEEPSEEK_API_KEY |-> None, OPENAI_API_KEY |-> None]],
      [config |-> [provider |-> "openai", api_key |-> None, api_base |-> None],
       env |-> [DEEPSEEK_API_KEY |-> None, OPENAI_API_KEY |-> "sk-env"]],
      [config |-> [provider |-> "mistral", api_key |-> "sk-arg", api_base |-> None],
       env |-> [DEEPSEEK_API_KEY |-> "sk-env", OPENAI_API_KEY |-> "sk-env"]],
      [config |-> [provider |-> "deepseek", api_key |-> None, api_base |-> None],
       env |-> [DEEPSEEK_API_KEY |-> None, OPENAI_API_KEY |-> "sk-env"]] }

(***************************************************************************)
(* The cache directory: two files.  tag is the number of the save() call   *)
(* that wrote the file (0: a save of an earlier program run); it is        *)
(* bookkeeping of the model, the program never reads it.                   *)
(***************************************************************************)
NoFile == [present |-> FALSE, readable |-> FALSE, tag |-> 0, data |-> <<>>]

File(tag, data) ==
    [present |-> TRUE, readable |-> TRUE, tag |-> tag, data |-> data]

\* a file that was opened for writing and never completed: it is there,
\* and faiss.read_index or pickle.load raises on it
Truncated(tag) ==
    [present |-> TRUE, readable |-> FALSE, tag |-> tag, data |-> <<>>]

\* the exception read_index or pickle.load raises on such a file
CacheReadError == "cache file cannot be read"

\* the store an earlier program run built and saved
EarlierStore ==
    FromDocuments(<< Chunk(SampleKeys[1], 1), Chunk(SampleKeys[1], 2) >>, 0)

\* the cache directories a first run may find: empty, a complete cache,
\* and a directory holding only one of the two files
InitialCaches ==
    { [index |-> NoFile, docs |-> NoFile],
      [index |-> File(0, EarlierStore.index), docs |-> File(0, EarlierStore.docstore)],
      [index |-> File(0, EarlierStore.index), docs |-> NoFile],
      [index |-> NoFile, docs |-> File(0, EarlierStore.docstore)] }

(***************************************************************************)
(* Retrieval: the ids of the TopK stored vectors nearest to the query      *)
(* embedding, nearest first, ties by position.                             *)
(***************************************************************************)
Distance(v, q) == IF v >= q THEN v - q ELSE q - v

\* the position of `among` nearest to q in the index
Nearest(index, q, among) ==
    CHOOSE i \in among :
        \A j \in among :
            \/ Distance(index[i + 1], q) < Distance(index[j + 1], q)
            \/ /\ Distance(index[i + 1], q) = Distance(index[j + 1], q)
               /\ i <= j

RECURSIVE Rank(_, _, _, _)
Rank(index, q, among, k) ==
    IF k = 0 \/ among = {} THEN <<>>
    ELSE LET i == Nearest(index, q, among)
         IN  <<i>> \o Rank(index, q, among \ {i}, k - 1)

\* the docstore ids a similarity search returns: each ranked position is
\* looked up in index_to_docstore_id (MissingId where the map has no entry)
MissingId == <<-1, -1>>

Retrieve(store, q) ==
    LET positions == Rank(store.index, q, 0..(Len(store.index) - 1), TopK)
    IN  [r \in 1..Len(positions) |->
            IF positions[r] \in DOMAIN store.index_to_docstore_id
            THEN store.index_to_docstore_id[positions[r]]
            ELSE MissingId]

(***************************************************************************)
(* State.                                                                  *)
(***************************************************************************)
VARIABLES
    pc,             \* where the run is in process_s3_bucket_async
    run,            \* the number of the program run
    reindex,        \* argument reindex
    model_config,   \* argument model_config
    environ,        \* os.environ of the run
    cacheIndex,     \* the file faiss_index.index of the cache directory
    cacheDocs,      \* the file docs.pkl of the cache directory
    existsResult,   \* what exists() returned at the cache check
    files,          \* what list_files returned
    tasks,          \* the units handed to asyncio.gather, in listing order
    completion,     \* the units in the order they finished
    documents,      \* the aggregated chunk list
    vector_store,   \* local vector_store
    engine,         \* the vector store of the RAGPipeline returned
    error,          \* the error the call raised
    total_usage,    \* DocumentProcessingPipeline.total_usage
    calls,          \* how often the run called list, load, build and save
    builds,         \* builds so far, over all runs (makes document ids fresh)
    saves,          \* save() calls so far, over all runs (tags the files)
    saved,          \* the stores the completed save() calls were given
    llm,            \* what create_model returned or raised
    tempDir,        \* whether the directory temp exists
    question,       \* local question of run_interactive_query
    outcomes,       \* how the questions of the session ended, in order
    invocations,    \* calls of chain.invoke so far
    reports,        \* "Error processing question" reports so far
    summary,        \* the usage summary main() logged
    cleanups,       \* calls of cleanup() so far
    records,        \* the usage records given to _update_usage, in order
    order,          \* the positions of records merged so far, in merge order
    content,        \* the extracted content handed to a processor
    chunks,         \* the chunks the processor returned for content
    chain           \* the state of the RAG chain of the engine: its calls and
                    \* what the last call retrieved, rendered and received

\* the variables of the interactive session and the shutdown of main()
loop == << question, outcomes, invocations, reports, summary, cleanups >>

\* the variables the steps of process_s3_bucket_async before the engine
\* leave alone
beyond == << llm, tempDir, loop, records, order, content, chunks, chain >>

vars ==
    << pc, run, reindex, model_config, environ, cacheIndex, cacheDocs,
       existsResult, files, tasks, completion, documents, vector_store, engine,
       error, total_usage, calls, builds, saves, saved, beyond >>

\* the variables a run holds in memory, besides pc and its arguments
memory ==
    << existsResult, files, tasks, completion, documents, vector_store,
       engine, error, total_usage, calls >>

NoCalls == [list |-> 0, load |-> 0, build |-> 0, save |-> 0]

\* question before the first prompt
NoQuestion == [bound |-> FALSE, cancelled |-> FALSE, text |-> <<>>]

\* before main() logged its summary
NoSummary == [reported |-> FALSE, usage |-> ZeroUsage]

\* the chain of a pipeline that was never invoked: calls and returns of
\* query, invocations of the model and calls of get_retrieved_docs so far;
\* question, context, prompt, message and cb of the call in progress;
\* response and usage as query last returned them; docs as
\* get_retrieved_docs last returned them
NoChain ==
    [calls |-> 0, returns |-> 0, invoked |-> 0, retrievals |-> 0,
     question |-> <<>>, context |-> <<>>, prompt |-> <<>>, message |-> <<>>,
     cb |-> ZeroUsage, response |-> <<>>, usage |-> ZeroUsage, docs |-> <<>>]

\* no content was handed to a processor
NoContent == [route |-> "none", length |-> 0]

\* a program that has not prompted, queried or shut down yet
FreshLoop ==
    /\ question' = NoQuestion
    /\ outcomes' = <<>>
    /\ invocations' = 0
    /\ reports' = 0
    /\ summary' = NoSummary
    /\ cleanups' = 0

\* a fresh DocumentProcessingPipeline at the call of process_s3_bucket_async
FreshMemory ==
    /\ existsResult' = FALSE
    /\ files' = <<>>
    /\ tasks' = <<>>
    /\ completion' = <<>>
    /\ documents' = <<>>
    /\ vector_store' = NoStore
    /\ engine' = NoStore
    /\ error' = None
    /\ total_usage' = ZeroUsage
    /\ calls' = NoCalls
    /\ llm' = NoModel
    /\ records' = <<>>
    /\ order' = <<>>
    /\ FreshLoop

Terminal == {"returned", "raised", "crashed"}

(***************************************************************************)
(* VectorStoreManager.                                                     *)
(***************************************************************************)
\* exists() as it would be if it tested the index file only
exists_IndexOnly == cacheIndex.present

\* VectorStoreManager.exists
exists == cacheIndex.present /\ cacheDocs.present

\* load() as it would be with the position map numbered from 1
load_EnumerateFromOne ==
    IF ~(cacheIndex.present /\ cacheDocs.present) THEN NoStore
    ELSE [some |-> TRUE,
          index |-> cacheIndex.data,
          docstore |-> cacheDocs.data,
          index_to_docstore_id |->
              [i \in 1..Len(cacheDocs.data) |-> cacheDocs.data[i].id]]

\* VectorStoreManager.load, lines 55-57: read_index and pickle.load raise
\* on a file they cannot read
loadRaises == exists /\ (~cacheIndex.readable \/ ~cacheDocs.readable)

\* VectorStoreManager.load; NoStore is the None it returns
load ==
    IF ~exists THEN NoStore
    ELSE LET index == cacheIndex.data
             docs_dict == cacheDocs.data
         IN  [some |-> TRUE,
              index |-> index,
              docstore |-> docs_dict,
              index_to_docstore_id |->
                  [i \in 0..(Len(docs_dict) - 1) |-> docs_dict[i + 1].id]]

Init ==
    /\ pc = "check"
    /\ run = 1
    /\ reindex \in BOOLEAN
    /\ \E r \in SampleRuns : model_config = r.config /\ environ = r.env
    /\ \E c \in InitialCaches : cacheIndex = c.index /\ cacheDocs = c.docs
    /\ existsResult = FALSE
    /\ files = <<>>
    /\ tasks = <<>>
    /\ completion = <<>>
    /\ documents = <<>>
    /\ vector_store = NoStore
    /\ engine = NoStore
    /\ error = None
    /\ total_usage = ZeroUsage
    /\ calls = NoCalls
    /\ builds = 0
    /\ saves = 0
    /\ saved = IF cacheIndex.present /\ cacheDocs.present
               THEN << EarlierStore >> ELSE << >>
    /\ llm = NoModel
    /\ tempDir = TRUE
    /\ question = NoQuestion
    /\ outcomes = <<>>
    /\ invocations = 0
    /\ reports = 0
    /\ summary = NoSummary
    /\ cleanups = 0
    /\ records = <<>>
    /\ order = <<>>
    /\ content = NoContent
    /\ chunks = <<>>
    /\ chain = NoChain

(***************************************************************************)
(* process_s3_bucket_async.                                                *)
(***************************************************************************)
\* the keys of SampleKeys at the positions S, in listing order
Listing(S) ==
    LET F[i \in 0..Len(SampleKeys)] ==
            IF i = 0 THEN <<>>
            ELSE IF i \in S THEN Append(F[i - 1], SampleKeys[i]) ELSE F[i - 1]
    IN  F[Len(SampleKeys)]

\* one unit async_process_file(bucket, file_key) as gather holds it
\* (route is the branch it took after the download, warned whether it
\* logged "Skipping unsupported file type")
Task(file_key) ==
    [key |-> file_key, status |-> "scheduled", fetches |-> 0,
     route |-> "none", warned |-> FALSE, extractions |-> 0, result |-> <<>>]

\* the loop that builds tasks as it would be without the directory test
ScheduleTasks_KeepsDirectories(listed) ==
    [i \in 1..Len(listed) |-> Task(listed[i])]

\* the loop that builds tasks: directory keys are skipped
ScheduleTasks(listed) ==
    LET kept == SelectSeq(listed, LAMBDA file_key : ~IsDirectoryKey(file_key))
    IN  [i \in 1..Len(kept) |-> Task(kept[i])]

\* the aggregation as it would be if one failed unit discarded the batch
Aggregate_AbortsOnFailure(results) ==
    LET F[i \in 0..Len(results)] ==
            IF i = 0 THEN <<>> ELSE F[i - 1] \o results[i].result
    IN  IF \E i \in 1..Len(results) : results[i].status = "failed"
        THEN <<>> ELSE F[Len(results)]

\* the aggregation as it would be if it kept one chunk of every result
Aggregate_FirstChunkOnly(results) ==
    LET F[i \in 0..Len(results)] ==
            IF i = 0 THEN <<>>
            ELSE F[i - 1] \o (IF results[i].result = <<>> THEN <<>>
                               ELSE << results[i].result[1] >>)
    IN  F[Len(results)]

\* the aggregation as it would be if it took the results in the order the
\* units finished
Aggregate_CompletionOrder(results) ==
    LET F[k \in 0..Len(completion)] ==
            IF k = 0 THEN <<>>
            ELSE F[k - 1] \o (IF results[completion[k]].status = "failed"
                               THEN <<>> ELSE results[completion[k]].result)
    IN  F[Len(completion)]

\* the loop over the gathered results: an exception is logged, a non-empty
\* list extends documents
RECURSIVE Aggregate(_)
Aggregate(results) ==
    IF results = <<>> THEN <<>>
    ELSE LET result == Head(results)
         IN  (IF result.status = "failed" THEN <<>> ELSE result.result)
                 \o Aggregate(Tail(results))

\* the join as it would be if it returned on the first unit to finish
AllFinished_FirstCompleted(ts) ==
    ts = <<>> \/ \E i \in 1..Len(ts) : ts[i].status \in {"done", "failed"}

\* gather(return_exceptions=True) returns when every unit has finished
AllFinished(ts) == \A i \in 1..Len(ts) : ts[i].status \in {"done", "failed"}

\* the cache check as it would be if it never used the cache
CheckCache_IgnoresCache ==
    /\ pc = "check"
    /\ existsResult' = (cacheIndex.present /\ cacheDocs.present)
    /\ pc' = "list"
    /\ UNCHANGED << run, reindex, model_config, environ, cacheIndex, cacheDocs,
                    files, tasks, completion, documents, vector_store, engine,
                    error, total_usage, calls, builds, saves, saved >>
    /\ UNCHANGED beyond

\* the cache check as it would be without the reindex flag
CheckCache_IgnoresReindex ==
    /\ pc = "check"
    /\ existsResult' = (cacheIndex.present /\ cacheDocs.present)
    /\ pc' = IF cacheIndex.present /\ cacheDocs.present THEN "load" ELSE "list"
    /\ UNCHANGED << run, reindex, model_config, environ, cacheIndex, cacheDocs,
                    files, tasks, completion, documents, vector_store, engine,
                    error, total_usage, calls, builds, saves, saved >>
    /\ UNCHANGED beyond

\* the cache check as it would be if the cache were keyed by the model
\* configuration it was built under
CheckCache_KeyedByModel ==
    /\ pc = "check"
    /\ existsResult' = exists
    /\ pc' = IF exists /\ ~reindex /\ model_config.provider = "deepseek"
             THEN "load" ELSE "list"
    /\ UNCHANGED << run, reindex, model_config, environ, cacheIndex, cacheDocs,
                    files, tasks, completion, documents, vector_store, engine, error,
                    total_usage, calls, builds, saves, saved >>
    /\ UNCHANGED beyond

\* line 56: the cache check
CheckCache ==
    /\ pc = "check"
    /\ existsResult' = exists
    /\ pc' = IF exists /\ ~reindex THEN "load" ELSE "list"
    /\ UNCHANGED << run, reindex, model_config, environ, cacheIndex, cacheDocs,
                    files, tasks, completion, documents, vector_store, engine, error,
                    total_usage, calls, builds, saves, saved >>
    /\ UNCHANGED beyond

\* the cache hit as it would be without the test of line 59: whatever
\* load() returns is bound to the engine
LoadCache_BindsNone ==
    /\ pc = "load"
    /\ calls' = [calls EXCEPT !.load = @ + 1]
    /\ IF loadRaises
       THEN /\ vector_store' = vector_store
            /\ error' = CacheReadError
            /\ pc' = "raised"
       ELSE /\ vector_store' = load
            /\ error' = error
            /\ pc' = "engine"
    /\ UNCHANGED << run, reindex, model_config, environ, cacheIndex, cacheDocs,
                    existsResult, files, tasks, completion, documents, engine,
                    total_usage, builds, saves, saved >>
    /\ UNCHANGED beyond

\* lines 58-59: load the cache; a None falls through to the listing, an
\* exception of read_index or pickle.load is not caught
LoadCache ==
    /\ pc = "load"
    /\ calls' = [calls EXCEPT !.load = @ + 1]
    /\ IF loadRaises
       THEN /\ vector_store' = vector_store
            /\ error' = CacheReadError
            /\ pc' = "raised"
       ELSE /\ vector_store' = load
            /\ error' = error
            /\ pc' = IF load.some THEN "engine" ELSE "list"
    /\ UNCHANGED << run, reindex, model_config, environ, cacheIndex, cacheDocs,
                    existsResult, files, tasks, completion, documents, engine,
                    total_usage, builds, saves, saved >>
    /\ UNCHANGED beyond

\* lines 63-69: list the bucket once and schedule one unit per file key
ListFiles ==
    /\ pc = "list"
    /\ \E S \in SUBSET (1..Len(SampleKeys)) :
          /\ Cardinality(S) <= MaxFiles
          /\ files' = Listing(S)
          /\ tasks' = ScheduleTasks(Listing(S))
    /\ completion' = <<>>
    /\ calls' = [calls EXCEPT !.list = @ + 1]
    /\ pc' = "gather"
    /\ UNCHANGED << run, reindex, model_config, environ, cacheIndex, cacheDocs,
                    existsResult, completion, documents, vector_store, engine,
                    error, total_usage, builds, saves, saved >>
    /\ UNCHANGED beyond

(***************************************************************************)
(* Local paths.  A path is the sequence of its segments below the working  *)
(* directory; a key is joined to temp_dir as pathlib joins it and resolved *)
(* as the file system resolves it.                                         *)
(***************************************************************************)
\* Path("temp")
temp_dir == << <<"t", "e", "m", "p">> >>

\* VectorStoreManager: cache_dir / "faiss_index.index"
index_path ==
    << <<"v", "e", "c", "t", "o", "r", "_", "s", "t", "o", "r", "e", "_", "c", "a", "c", "h", "e">>,
       <<"f", "a", "i", "s", "s", "_", "i", "n", "d", "e", "x", ".", "i", "n", "d", "e", "x">> >>

\* VectorStoreManager: cache_dir / "docs.pkl"
docs_path ==
    << <<"v", "e", "c", "t", "o", "r", "_", "s", "t", "o", "r", "e", "_", "c", "a", "c", "h", "e">>,
       <<"d", "o", "c", "s", ".", "p", "k", "l">> >>

\* one character more of a key: '/' opens a segment, any other character
\* extends the last one
AddChar(segments, c) ==
    IF c = "/" THEN Append(segments, <<>>)
    ELSE [segments EXCEPT ![Len(segments)] = Append(@, c)]

\* the segments of a key, split at '/'
Segments(file_key) ==
    LET F[i \in 0..Len(file_key)] ==
            IF i = 0 THEN << <<>> >> ELSE AddChar(F[i - 1], file_key[i])
    IN  F[Len(file_key)]

\* one segment more of a path: empty and '.' segments are dropped, '..'
\* leaves the directory reached so far
AddSegment(path, segment) ==
    IF segment \in { <<>>, <<".">> } THEN path
    ELSE IF segment # <<".", ".">> THEN Append(path, segment)
    ELSE IF path = <<>> THEN << segment >>
    ELSE IF path[Len(path)] = <<".", ".">> THEN Append(path, segment)
    ELSE SubSeq(path, 1, Len(path) - 1)

\* the path a sequence of segments names
Resolve(segments) ==
    LET F[i \in 0..Len(segments)] ==
            IF i = 0 THEN <<>> ELSE AddSegment(F[i - 1], segments[i])
    IN  F[Len(segments)]

\* async_process_file, lines 102-103: self.temp_dir / Path(file_key); an
\* absolute key replaces temp_dir and names a path outside the working
\* directory
LocalPath(file_key) ==
    IF file_key # <<>> /\ file_key[1] = "/"
    THEN << <<"/">> >> \o Resolve(Segments(file_key))
    ELSE Resolve(temp_dir \o Segments(file_key))

\* what a download leaves at its local path: the bytes of a bucket
\* object, which pickle.load and read_index may or may not accept
Downloaded ==
    { [present |-> TRUE, readable |-> FALSE, tag |-> -1, data |-> <<>>],
      [present |-> TRUE, readable |-> TRUE, tag |-> -1, data |-> <<>>] }

\* S3Client.download_file, lines 54-62, seen from the cache directory: the
\* file at the local path is unlinked and the object written there.  ok
\* tells whether the transfer succeeded; a download that raises may have
\* unlinked the file already
DownloadTo(path, ok) ==
    /\ IF path = index_path
       THEN IF ok THEN cacheIndex' \in Downloaded
                  ELSE cacheIndex' \in {cacheIndex, NoFile}
       ELSE cacheIndex' = cacheIndex
    /\ IF path = docs_path
       THEN IF ok THEN cacheDocs' \in Downloaded
                  ELSE cacheDocs' \in {cacheDocs, NoFile}
       ELSE cacheDocs' = cacheDocs

\* what the download of a unit leaves alone
FetchFrame ==
    UNCHANGED << pc, run, reindex, model_config, environ, existsResult, files,
                 documents, vector_store, engine, error, total_usage, calls,
                 builds, saves, saved, beyond >>

UnitFrame ==
    UNCHANGED << pc, run, reindex, model_config, environ, cacheIndex, cacheDocs,
                 existsResult, files, documents, vector_store, engine, error,
                 total_usage, calls, builds, saves, saved, beyond >>

\* the unit as it would be if it tested the suffix before the download
FetchReturns_SkipsBeforeFetch(i) ==
    /\ pc = "gather"
    /\ tasks[i].status = "scheduled"
    /\ IF Route(tasks[i].key) = "unsupported"
       THEN /\ tasks' = [tasks EXCEPT ![i].route = "unsupported",
                                      ![i].warned = TRUE,
                                      ![i].status = "done"]
            /\ completion' = Append(completion, i)
       ELSE /\ tasks' = [tasks EXCEPT ![i].fetches = @ + 1,
                                      ![i].route = Route(tasks[i].key),
                                      ![i].extractions = @ + 1,
                                      ![i].status = "extracting"]
            /\ completion' = completion
    /\ UnitFrame

\* async_process_file, line 106: the download returns; an unsupported key
\* logs the warning and returns [] at once, every other key goes on to the
\* extraction of its branch
FetchReturns(i) ==
    /\ pc = "gather"
    /\ tasks[i].status = "scheduled"
    /\ IF Route(tasks[i].key) = "unsupported"
       THEN /\ tasks' = [tasks EXCEPT ![i].fetches = @ + 1,
                                      ![i].route = "unsupported",
                                      ![i].warned = TRUE,
                                      ![i].status = "done"]
            /\ completion' = Append(completion, i)
       ELSE /\ tasks' = [tasks EXCEPT ![i].fetches = @ + 1,
                                      ![i].route = Route(tasks[i].key),
                                      ![i].extractions = @ + 1,
                                      ![i].status = "extracting"]
            /\ completion' = completion
    /\ DownloadTo(LocalPath(tasks[i].key), TRUE)
    /\ FetchFrame

\* async_process_file, line 106: the download raises, and so does the unit
FetchRaises(i) ==
    /\ pc = "gather"
    /\ tasks[i].status = "scheduled"
    /\ tasks' = [tasks EXCEPT ![i].fetches = @ + 1, ![i].status = "failed"]
    /\ completion' = Append(completion, i)
    /\ DownloadTo(LocalPath(tasks[i].key), FALSE)
    /\ FetchFrame

\* the unit as it would be if it added its own usage to the shared totals
ExtractReturns_ReportsUsage(i, n) ==
    /\ pc = "gather"
    /\ tasks[i].status = "extracting"
    /\ tasks' = [tasks EXCEPT ![i].status = "done",
                              ![i].result = ChunksOf(tasks[i].key, n)]
    /\ completion' = Append(completion, i)
    /\ total_usage' = UpdateUsage(total_usage,
                           [total_tokens |-> n, total_cost |-> n,
                            successful_requests |-> 1])
    /\ UNCHANGED << pc, run, reindex, model_config, environ, cacheIndex, cacheDocs,
                    existsResult, files, documents, vector_store, engine, error,
                    calls, builds, saves, saved, beyond >>

\* async_process_file, lines 109-118: the extraction returns n chunks
ExtractReturns(i, n) ==
    /\ pc = "gather"
    /\ tasks[i].status = "extracting"
    /\ tasks' = [tasks EXCEPT ![i].status = "done",
                              ![i].result = ChunksOf(tasks[i].key, n)]
    /\ completion' = Append(completion, i)
    /\ UnitFrame

\* async_process_file, lines 109-118: the extraction hits an error;
\* process_docx and process_html return [] then, the others raise
ExtractRaises(i) ==
    /\ pc = "gather"
    /\ tasks[i].status = "extracting"
    /\ tasks' = [tasks EXCEPT ![i].status =
                                  IF CatchesOwnErrors(Route(tasks[i].key))
                                  THEN "done" ELSE "failed"]
    /\ completion' = Append(completion, i)
    /\ UnitFrame

\* the join as it would be without the empty-corpus check
Join_NoEmptyCheck ==
    /\ pc = "gather"
    /\ \A i \in 1..Len(tasks) : tasks[i].status \in {"done", "failed"}
    /\ documents' =
          LET F[i \in 0..Len(tasks)] ==
                  IF i = 0 THEN <<>> ELSE F[i - 1] \o tasks[i].result
          IN  F[Len(tasks)]
    /\ error' = error
    /\ pc' = "build"
    /\ UNCHANGED << run, reindex, model_config, environ, cacheIndex, cacheDocs,
                    existsResult, files, tasks, completion, vector_store, engine,
                    total_usage, calls, builds, saves, saved >>
    /\ UNCHANGED beyond

\* the ValueError of the empty-corpus check
EmptyCorpus == "No documents were successfully processed"

\* lines 71-81: the join, the aggregation and the empty-corpus check
Join ==
    /\ pc = "gather"
    /\ AllFinished(tasks)
    /\ documents' = Aggregate(tasks)
    /\ IF Aggregate(tasks) = <<>>
       THEN /\ error' = EmptyCorpus
            /\ pc' = "raised"
       ELSE /\ error' = error
            /\ pc' = "build"
    /\ UNCHANGED << run, reindex, model_config, environ, cacheIndex, cacheDocs,
                    existsResult, files, tasks, completion, vector_store, engine,
                    total_usage, calls, builds, saves, saved >>
    /\ UNCHANGED beyond

\* what FAISS.from_documents fails with when it is given no document: the
\* embedding request is rejected, or the dimension of the index is read
\* from the first of no vectors
LibraryErrors == { "embedding request rejected", "list index out of range" }

\* lines 84-85: create_vector_store and _update_usage.  create_vector_store
\* hands the documents to FAISS.from_documents as they are
Build ==
    /\ pc = "build"
    /\ builds' = builds + 1
    /\ calls' = [calls EXCEPT !.build = @ + 1]
    /\ IF documents = <<>>
       THEN /\ \E e \in LibraryErrors : error' = e
            /\ pc' = "raised"
            /\ UNCHANGED << vector_store, total_usage, records, order >>
       ELSE /\ vector_store' = FromDocuments(documents, builds + 1)
            /\ total_usage' = UpdateUsage(total_usage, EmbeddingUsage(documents))
            /\ records' = Append(records, EmbeddingUsage(documents))
            /\ order' = Append(order, Len(records) + 1)
            /\ error' = error
            /\ pc' = "save_index"
    /\ UNCHANGED << run, reindex, model_config, environ, cacheIndex, cacheDocs,
                    existsResult, files, tasks, completion, documents, engine,
                    saves, saved >>
    /\ UNCHANGED << llm, tempDir, loop, content, chunks, chain >>

\* VectorStoreManager.save, line 39: faiss.write_index
SaveIndex ==
    /\ pc = "save_index"
    /\ saves' = saves + 1
    /\ cacheIndex' = File(saves + 1, vector_store.index)
    /\ calls' = [calls EXCEPT !.save = @ + 1]
    /\ pc' = "save_docs"
    /\ UNCHANGED << run, reindex, model_config, environ, cacheDocs,
                    existsResult, files, tasks, completion, documents, vector_store, engine,
                    error, total_usage, builds, saved >>
    /\ UNCHANGED beyond

\* the second write of save() as it would be if it merged into the old file
SaveDocs_Merges ==
    /\ pc = "save_docs"
    /\ cacheDocs' = File(saves, cacheDocs.data \o vector_store.docstore)
    /\ saved' = Append(saved, vector_store)
    /\ pc' = "engine"
    /\ UNCHANGED << run, reindex, model_config, environ, cacheIndex,
                    existsResult, files, tasks, completion, documents,
                    vector_store, engine, error, total_usage, calls, builds,
                    saves >>
    /\ UNCHANGED beyond

\* VectorStoreManager.save, lines 40-41: pickle.dump of docstore._dict
SaveDocs ==
    /\ pc = "save_docs"
    /\ cacheDocs' = File(saves, vector_store.docstore)
    /\ saved' = Append(saved, vector_store)
    /\ pc' = "engine"
    /\ UNCHANGED << run, reindex, model_config, environ, cacheIndex,
                    existsResult, files, tasks, completion, documents, vector_store, engine,
                    error, total_usage, calls, builds, saves >>
    /\ UNCHANGED beyond

\* lines 60 and 88: RAGPipeline(vector_store, model_config), which calls
\* ModelFactory.create_model
MakeEngine ==
    /\ pc = "engine"
    /\ llm' = create_model(model_config, environ)
    /\ IF llm'.ok
       THEN /\ engine' = vector_store
            /\ error' = error
            /\ pc' = "returned"
       ELSE /\ engine' = engine
            /\ error' = llm'.error
            /\ pc' = "raised"
    /\ UNCHANGED << run, reindex, model_config, environ, cacheIndex, cacheDocs,
                    existsResult, files, tasks, completion, documents, vector_store,
                    total_usage, calls, builds, saves, saved >>
    /\ UNCHANGED << tempDir, loop, records, order, content, chunks, chain >>

\* the process is killed: its memory is gone, the cache directory stays
Crash ==
    /\ pc \notin Terminal
    /\ pc' = "crashed"
    /\ FreshMemory
    /\ UNCHANGED << run, reindex, model_config, environ, cacheIndex, cacheDocs,
                    builds, saves, saved >>
    /\ UNCHANGED << tempDir, content, chunks, chain >>

\* the process is killed inside one of the two writes of save(): the file
\* being written was opened (and so truncated) and is left incomplete
CrashInSave ==
    /\ pc \in {"save_index", "save_docs"}
    /\ IF pc = "save_index"
       THEN /\ cacheIndex' = Truncated(saves + 1)
            /\ cacheDocs' = cacheDocs
            /\ saves' = saves + 1
       ELSE /\ cacheIndex' = cacheIndex
            /\ cacheDocs' = Truncated(saves)
            /\ saves' = saves
    /\ pc' = "crashed"
    /\ FreshMemory
    /\ UNCHANGED << run, reindex, model_config, environ, builds, saved,
                    tempDir, content, chunks, chain >>

\* the program is started again on the same cache directory
NewRun ==
    /\ pc \in Terminal
    /\ run < MaxRuns
    /\ run' = run + 1
    /\ pc' = "check"
    /\ reindex' \in BOOLEAN
    /\ \E r \in SampleRuns : model_config' = r.config /\ environ' = r.env
    /\ FreshMemory
    /\ tempDir' = TRUE
    /\ UNCHANGED << cacheIndex, cacheDocs, builds, saves, saved, content,
                    chunks, chain >>

Next ==
    \/ CheckCache
    \/ LoadCache
    \/ ListFiles
    \/ \E i \in 1..Len(tasks) : FetchReturns(i)
    \/ \E i \in 1..Len(tasks) : FetchRaises(i)
    \/ \E i \in 1..Len(tasks) : \E n \in 0..MaxChunks : ExtractReturns(i, n)
    \/ \E i \in 1..Len(tasks) : ExtractRaises(i)
    \/ Join
    \/ Build
    \/ SaveIndex
    \/ SaveDocs
    \/ MakeEngine

\* one program run, from any of the initial cache directories
Spec == Init /\ [][Next]_vars

\* between the cache check of line 56 and the check load() makes again at
\* its line 53, something else removes one of the two cache files
ArtifactRemoved ==
    /\ pc = "load"
    /\ \/ cacheIndex.present /\ cacheIndex' = NoFile /\ cacheDocs' = cacheDocs
       \/ cacheDocs.present /\ cacheDocs' = NoFile /\ cacheIndex' = cacheIndex
    /\ UNCHANGED << pc, run, reindex, model_config, environ, existsResult, files,
                    tasks, completion, documents, vector_store, engine, error,
                    total_usage, calls, builds, saves, saved, beyond >>

NextRace ==
    \/ Next
    \/ ArtifactRemoved

\* one program run whose cache directory is shared with something that
\* removes files
SpecRace == Init /\ [][NextRace]_vars

\* consecutive program runs on one cache directory, any of which may be
\* killed
NextRuns ==
    \/ Next
    \/ Crash
    \/ CrashInSave
    \/ NewRun

SpecRuns == Init /\ [][NextRuns]_vars

(***************************************************************************)
(* ModelFactory.create_model on its own, applied to every configuration    *)
(* of SampleConfigs in every environment of SampleEnvs.                    *)
(***************************************************************************)
\* the values of the variables no step of the smaller specifications uses
Idle ==
    /\ run = 1
    /\ reindex = FALSE
    /\ cacheIndex = NoFile
    /\ cacheDocs = NoFile
    /\ existsResult = FALSE
    /\ files = <<>>
    /\ tasks = <<>>
    /\ completion = <<>>
    /\ documents = <<>>
    /\ vector_store = NoStore
    /\ engine = NoStore
    /\ error = None
    /\ total_usage = ZeroUsage
    /\ calls = NoCalls
    /\ builds = 0
    /\ saves = 0
    /\ saved = <<>>
    /\ llm = NoModel
    /\ tempDir = TRUE
    /\ question = NoQuestion
    /\ outcomes = <<>>
    /\ invocations = 0
    /\ reports = 0
    /\ summary = NoSummary
    /\ cleanups = 0
    /\ order = <<>>
    /\ chunks = <<>>
    /\ chain = NoChain

InitFactory ==
    /\ pc = "create_model"
    /\ model_config \in SampleConfigs
    /\ environ \in SampleEnvs
    /\ records = <<>>
    /\ content = NoContent
    /\ Idle

\* one call ModelFactory.create_model(config)
CreateModel ==
    /\ pc = "create_model"
    /\ llm' = create_model(model_config, environ)
    /\ error' = llm'.error
    /\ pc' = IF llm'.ok THEN "model" ELSE "model_error"
    /\ UNCHANGED << run, reindex, model_config, environ, cacheIndex, cacheDocs,
                    existsResult, files, tasks, completion, documents,
                    vector_store, engine, total_usage, calls, builds, saves,
                    saved, tempDir, loop, records, order, content, chunks, chain >>

NextFactory == CreateModel

SpecFactory == InitFactory /\ [][NextFactory]_vars

(***************************************************************************)
(* DocumentProcessingPipeline._update_usage on its own: the records of a   *)
(* list are merged into total_usage one by one, in any order.              *)
(***************************************************************************)
\* the names of the five counters
UsageFields ==
    {"total_tokens", "prompt_tokens", "completion_tokens", "total_cost",
     "successful_requests"}

\* usage records as the callers produce them: the five fields of
\* RAGPipeline.query, the three fields of create_vector_store, and a
\* dict that lacks most fields
SampleUsages ==
    { [total_tokens |-> 5, prompt_tokens |-> 3, completion_tokens |-> 2,
       total_cost |-> 1, successful_requests |-> 1],
      [total_tokens |-> 4, total_cost |-> 8, successful_requests |-> 1],
      [total_tokens |-> 7, prompt_tokens |-> 7] }

\* the lists of at most n sample records
UsageLists(n) == UNION { [1..k -> SampleUsages] : k \in 0..n }

InitUsage ==
    /\ pc = "merge"
    /\ records \in UsageLists(MaxRecords)
    /\ model_config \in {r.config : r \in SampleRuns}
    /\ model_config.provider = "openai"
    /\ environ \in {r.env : r \in SampleRuns}
    /\ environ.OPENAI_API_KEY = "sk-env"
    /\ environ.DEEPSEEK_API_KEY = None
    /\ content = NoContent
    /\ Idle

\* one call _update_usage(records[i]) of a record not merged yet
Merge(i) ==
    /\ pc = "merge"
    /\ \A k \in 1..Len(order) : order[k] # i
    /\ total_usage' = UpdateUsage(total_usage, records[i])
    /\ order' = Append(order, i)
    /\ UNCHANGED << pc, run, reindex, model_config, environ, cacheIndex,
                    cacheDocs, existsResult, files, tasks, completion,
                    documents, vector_store, engine, error, calls, builds,
                    saves, saved, llm, tempDir, loop, records, content,
                    chunks, chain >>

NextUsage == \E i \in 1..Len(records) : Merge(i)

SpecUsage == InitUsage /\ [][NextUsage]_vars

(***************************************************************************)
(* The processors of DocumentProcessor on their own.  A content is the     *)
(* text extracted from one file, given by its length; a chunk is the       *)
(* half-open range [from, to) of character positions it holds.             *)
(***************************************************************************)
\* RecursiveCharacterTextSplitter(chunk_size=1000, chunk_overlap=200)
chunk_size == 1000
chunk_overlap == 200

\* the splitter on a text of n characters that holds no separator: windows
\* of chunk_size characters, each starting chunk_size - chunk_overlap after
\* the one before, the last one ending at n; no chunk for the empty text
RECURSIVE SplitFrom(_, _)
SplitFrom(from, n) ==
    IF from + chunk_size >= n THEN << [from |-> from, to |-> n] >>
    ELSE << [from |-> from, to |-> from + chunk_size] >>
             \o SplitFrom(from + chunk_size - chunk_overlap, n)

\* text_splitter.create_documents / split_documents
Split(n) == IF n = 0 THEN <<>> ELSE SplitFrom(0, n)

\* the routes that hand a content to a processor
ProcessorRoutes == {"text", "pdf", "image", "docx", "html"}

\* what the processor of a route returns for a content: process_image
\* returns loader.load(), one document holding the whole text; the others
\* return what the splitter makes of the text
Processed(c) ==
    IF c.route = "image" THEN << [from |-> 0, to |-> c.length] >>
    ELSE Split(c.length)

InitChunks ==
    /\ pc = "extracted"
    /\ content \in [route : ProcessorRoutes, length : 0..MaxLength]
    /\ records = <<>>
    /\ model_config \in {r.config : r \in SampleRuns}
    /\ model_config.provider = "openai"
    /\ environ \in {r.env : r \in SampleRuns}
    /\ environ.OPENAI_API_KEY = "sk-env"
    /\ environ.DEEPSEEK_API_KEY = None
    /\ Idle

\* one call of process_text, process_pdf, process_image, process_docx or
\* process_html
Process ==
    /\ pc = "extracted"
    /\ chunks' = Processed(content)
    /\ pc' = "chunked"
    /\ UNCHANGED << run, reindex, model_config, environ, cacheIndex, cacheDocs,
                    existsResult, files, tasks, completion, documents,
                    vector_store, engine, error, total_usage, calls, builds,
                    saves, saved, llm, tempDir, loop, records, order,
                    content, chain >>

NextChunks == Process

SpecChunks == InitChunks /\ [][NextChunks]_vars

(***************************************************************************)
(* One unit async_process_file on its own, for keys made of a stem and an  *)
(* ending: the state after a listing of one key, then the steps of the     *)
(* unit.                                                                   *)
(***************************************************************************)
\* endings of keys, each with the branch the routing rule names for it:
\* the eight suffixes in lower, upper and mixed case, and endings that
\* are no suffix of the rule
SampleEndings ==
    { [ext |-> <<".", "t", "x", "t">>, route |-> "text"],
      [ext |-> <<".", "T", "X", "T">>, route |-> "text"],
      [ext |-> <<".", "t", "X", "t">>, route |-> "text"],
      [ext |-> <<".", "p", "d", "f">>, route |-> "pdf"],
      [ext |-> <<".", "P", "D", "F">>, route |-> "pdf"],
      [ext |-> <<".", "p", "D", "f">>, route |-> "pdf"],
      [ext |-> <<".", "p", "n", "g">>, route |-> "image"],
      [ext |-> <<".", "P", "N", "G">>, route |-> "image"],
      [ext |-> <<".", "p", "N", "g">>, route |-> "image"],
      [ext |-> <<".", "j", "p", "g">>, route |-> "image"],
      [ext |-> <<".", "J", "P", "G">>, route |-> "image"],
      [ext |-> <<".", "j", "P", "g">>, route |-> "image"],
      [ext |-> <<".", "j", "p", "e", "g">>, route |-> "image"],
      [ext |-> <<".", "J", "P", "E", "G">>, route |-> "image"],
      [ext |-> <<".", "j", "P", "e", "g">>, route |-> "image"],
      [ext |-> <<".", "d", "o", "c", "x">>, route |-> "docx"],
      [ext |-> <<".", "D", "O", "C", "X">>, route |-> "docx"],
      [ext |-> <<".", "d", "O", "c", "x">>, route |-> "docx"],
      [ext |-> <<".", "h", "t", "m", "l">>, route |-> "html"],
      [ext |-> <<".", "H", "T", "M", "L">>, route |-> "html"],
      [ext |-> <<".", "h", "T", "m", "l">>, route |-> "html"],
      [ext |-> <<".", "h", "t", "m">>, route |-> "html"],
      [ext |-> <<".", "H", "T", "M">>, route |-> "html"],
      [ext |-> <<".", "h", "T", "m">>, route |-> "html"],
      [ext |-> <<".", "b", "i", "n">>, route |-> "unsupported"],
      [ext |-> <<".", "d", "o", "c">>, route |-> "unsupported"],
      [ext |-> <<".", "t", "e", "x", "t">>, route |-> "unsupported"],
      [ext |-> <<".", "h", "t", "m", "x">>, route |-> "unsupported"],
      [ext |-> <<".", "j", "p", "e">>, route |-> "unsupported"],
      [ext |-> <<"t", "x", "t">>, route |-> "unsupported"],
      [ext |-> <<".", "m", "d">>, route |-> "unsupported"],
      [ext |-> <<".", "t", "x", "t", "~">>, route |-> "unsupported"],
      [ext |-> <<".", "p", "d", "f", ".", "g", "z">>, route |-> "unsupported"] }

\* what comes before the ending: nothing, a name, a path, a name that
\* holds another suffix
SampleStems ==
    { <<>>, <<"a">>, <<"d", "/", "b">>, <<"x", ".", "p", "d", "f">> }

InitRoute ==
    /\ pc = "gather"
    /\ \E stem \in SampleStems : \E e \in SampleEndings :
          /\ files = << stem \o e.ext >>
          /\ tasks = ScheduleTasks(<< stem \o e.ext >>)
    /\ calls = [NoCalls EXCEPT !.list = 1]
    /\ run = 1
    /\ reindex = TRUE
    /\ model_config \in {r.config : r \in SampleRuns}
    /\ model_config.provider = "openai"
    /\ environ \in {r.env : r \in SampleRuns}
    /\ environ.OPENAI_API_KEY = "sk-env"
    /\ environ.DEEPSEEK_API_KEY = None
    /\ cacheIndex = NoFile
    /\ cacheDocs = NoFile
    /\ existsResult = FALSE
    /\ completion = <<>>
    /\ documents = <<>>
    /\ vector_store = NoStore
    /\ engine = NoStore
    /\ error = None
    /\ total_usage = ZeroUsage
    /\ builds = 0
    /\ saves = 0
    /\ saved = <<>>
    /\ llm = NoModel
    /\ tempDir = TRUE
    /\ question = NoQuestion
    /\ outcomes = <<>>
    /\ invocations = 0
    /\ reports = 0
    /\ summary = NoSummary
    /\ cleanups = 0
    /\ records = <<>>
    /\ order = <<>>
    /\ content = NoContent
    /\ chunks = <<>>
    /\ chain = NoChain

NextRoute ==
    \/ \E i \in 1..Len(tasks) : FetchReturns(i)
    \/ \E i \in 1..Len(tasks) : FetchRaises(i)
    \/ \E i \in 1..Len(tasks) : \E n \in 0..MaxChunks : ExtractReturns(i, n)
    \/ \E i \in 1..Len(tasks) : ExtractRaises(i)

SpecRoute == InitRoute /\ [][NextRoute]_vars

(***************************************************************************)
(* The ingestion of a listing whose keys are any object keys the bucket    *)
(* may hold, keys with '..' segments included, from the scheduling of the  *)
(* units on.                                                               *)
(***************************************************************************)
\* keys of bucket objects: a text file, a file of an unsupported type and
\* two keys that lead out of temp_dir
ObjectKeys ==
    << <<"a", ".", "t", "x", "t">>,
       <<"d", ".", "b", "i", "n">>,
       <<".", ".", "/", "v", "e", "c", "t", "o", "r", "_", "s", "t", "o", "r", "e", "_", "c", "a", "c", "h", "e", "/", "d", "o", "c", "s", ".", "p", "k", "l">>,
       <<"n", "/", ".", ".", "/", ".", ".", "/", "v", "e", "c", "t", "o", "r", "_", "s", "t", "o", "r", "e", "_", "c", "a", "c", "h", "e", "/", "f", "a", "i", "s", "s", "_", "i", "n", "d", "e", "x", ".", "i", "n", "d", "e", "x">> >>

\* the keys of ObjectKeys at the positions S, in listing order
Pick(S) ==
    LET F[i \in 0..Len(ObjectKeys)] ==
            IF i = 0 THEN <<>>
            ELSE IF i \in S THEN Append(F[i - 1], ObjectKeys[i]) ELSE F[i - 1]
    IN  F[Len(ObjectKeys)]

\* process_s3_bucket_async has listed the bucket: either reindex is set or
\* the cache check found no complete cache
InitObjects ==
    /\ pc = "gather"
    /\ \E S \in SUBSET (1..Len(ObjectKeys)) :
          /\ Cardinality(S) <= MaxFiles
          /\ files = Pick(S)
          /\ tasks = ScheduleTasks(Pick(S))
    /\ \E c \in InitialCaches : cacheIndex = c.index /\ cacheDocs = c.docs
    /\ reindex \in BOOLEAN
    /\ existsResult = (cacheIndex.present /\ cacheDocs.present)
    /\ existsResult => reindex
    /\ calls = [NoCalls EXCEPT !.list = 1]
    /\ run = 1
    /\ model_config \in {r.config : r \in SampleRuns}
    /\ model_config.provider = "openai"
    /\ environ \in {r.env : r \in SampleRuns}
    /\ environ.OPENAI_API_KEY = "sk-env"
    /\ environ.DEEPSEEK_API_KEY = None
    /\ completion = <<>>
    /\ documents = <<>>
    /\ vector_store = NoStore
    /\ engine = NoStore
    /\ error = None
    /\ total_usage = ZeroUsage
    /\ builds = 0
    /\ saves = 0
    /\ saved = <<>>
    /\ llm = NoModel
    /\ tempDir = TRUE
    /\ question = NoQuestion
    /\ outcomes = <<>>
    /\ invocations = 0
    /\ reports = 0
    /\ summary = NoSummary
    /\ cleanups = 0
    /\ records = <<>>
    /\ order = <<>>
    /\ content = NoContent
    /\ chunks = <<>>
    /\ chain = NoChain

NextObjects ==
    \/ \E i \in 1..Len(tasks) : FetchReturns(i)
    \/ \E i \in 1..Len(tasks) : FetchRaises(i)
    \/ \E i \in 1..Len(tasks) : \E n \in 0..MaxChunks : ExtractReturns(i, n)
    \/ \E i \in 1..Len(tasks) : ExtractRaises(i)
    \/ Join
    \/ Build
    \/ SaveIndex
    \/ SaveDocs
    \/ MakeEngine

SpecObjects == InitObjects /\ [][NextObjects]_vars

(***************************************************************************)
(* DocumentProcessor.create_vector_store called on its own, with any list  *)
(* of chunks, the empty one included.                                      *)
(***************************************************************************)
\* the chunks of the sample files
SampleChunks == { Chunk(SampleKeys[k], j) : k \in 1..Len(SampleKeys), j \in 1..MaxChunks }

\* the lists of at most n sample chunks
ChunkLists(n) == UNION { [1..k -> SampleChunks] : k \in 0..n }

InitBuilder ==
    /\ pc = "build"
    /\ documents \in ChunkLists(MaxChunks)
    /\ calls = NoCalls
    /\ files = <<>>
    /\ tasks = <<>>
    /\ run = 1
    /\ reindex = TRUE
    /\ model_config \in {r.config : r \in SampleRuns}
    /\ model_config.provider = "openai"
    /\ environ \in {r.env : r \in SampleRuns}
    /\ environ.OPENAI_API_KEY = "sk-env"
    /\ environ.DEEPSEEK_API_KEY = None
    /\ cacheIndex = NoFile
    /\ cacheDocs = NoFile
    /\ existsResult = FALSE
    /\ completion = <<>>
    /\ vector_store = NoStore
    /\ engine = NoStore
    /\ error = None
    /\ total_usage = ZeroUsage
    /\ builds = 0
    /\ saves = 0
    /\ saved = <<>>
    /\ llm = NoModel
    /\ tempDir = TRUE
    /\ question = NoQuestion
    /\ outcomes = <<>>
    /\ invocations = 0
    /\ reports = 0
    /\ summary = NoSummary
    /\ cleanups = 0
    /\ records = <<>>
    /\ order = <<>>
    /\ content = NoContent
    /\ chunks = <<>>
    /\ chain = NoChain

NextBuilder == Build

SpecBuilder == InitBuilder /\ [][NextBuilder]_vars

(***************************************************************************)
(* RAGPipeline: one pass of the loop body over an engine.  rag.query runs  *)
(* the chain (retriever, prompt, model, output parser) inside a fresh      *)
(* usage callback; the loop merges the usage it returns and may then call  *)
(* get_retrieved_docs.                                                     *)
(***************************************************************************)
\* the stores a pipeline is built over
SampleEngines ==
    { EarlierStore,
      FromDocuments(<< Chunk(SampleKeys[2], 1) >>, 1),
      FromDocuments(<< Chunk(SampleKeys[1], 1), Chunk(SampleKeys[2], 1),
                       Chunk(SampleKeys[2], 2) >>, 1) }

\* the questions asked
SampleQuestions == { <<"w", "h", "y", "?">>, <<"h", "o", "w">> }

\* what the model capability answers: the text of its message and the
\* usage the provider reports for the request
SampleMessages ==
    { [content |-> <<"y", "e", "s">>,
       usage |-> [total_tokens |-> 5, prompt_tokens |-> 3, completion_tokens |-> 2,
                  total_cost |-> 1, successful_requests |-> 1]],
      [content |-> <<"n", "o">>,
       usage |-> [total_tokens |-> 4, prompt_tokens |-> 3, completion_tokens |-> 1,
                  total_cost |-> 2, successful_requests |-> 1]] }

\* the embedding of a question: a fixed function of its text
EmbedQuery(text) == Len(text) % (MaxQuery + 1)

\* the docstore entry of an id
Lookup(store, id) ==
    LET j == CHOOSE j \in 1..Len(store.docstore) : store.docstore[j].id = id
    IN  store.docstore[j].doc

\* vector_store.as_retriever(): the documents of the TopK nearest vectors
RetrievedDocs(store, text) ==
    LET ids == Retrieve(store, EmbedQuery(text))
    IN  [r \in 1..Len(ids) |-> Lookup(store, ids[r])]

\* the prompt template of lines 26-37, rendered: the instructions, then
\* the context, then the question, then the answer cue
Render(context, text) ==
    << [part |-> "instructions", docs |-> <<>>, text |-> <<>>],
       [part |-> "Context:", docs |-> context, text |-> <<>>],
       [part |-> "Question:", docs |-> <<>>, text |-> text],
       [part |-> "Answer:", docs |-> <<>>, text |-> <<>>] >>

\* StrOutputParser: the text of the message
ParseStr(message) == message.content

\* the usage dict of lines 72-78: the five counters of the callback
UsageOf(cb) ==
    [total_tokens |-> cb.total_tokens, prompt_tokens |-> cb.prompt_tokens,
     completion_tokens |-> cb.completion_tokens, total_cost |-> cb.total_cost,
     successful_requests |-> cb.successful_requests]

InitQuery ==
    /\ pc = "pipeline"
    /\ engine \in SampleEngines
    /\ vector_store = engine
    /\ chain = NoChain
    /\ run = 1
    /\ reindex = FALSE
    /\ model_config \in {r.config : r \in SampleRuns}
    /\ model_config.provider = "openai"
    /\ environ \in {r.env : r \in SampleRuns}
    /\ environ.OPENAI_API_KEY = "sk-env"
    /\ environ.DEEPSEEK_API_KEY = None
    /\ llm = create_model(model_config, environ)
    /\ cacheIndex = NoFile
    /\ cacheDocs = NoFile
    /\ existsResult = FALSE
    /\ files = <<>>
    /\ tasks = <<>>
    /\ completion = <<>>
    /\ documents = <<>>
    /\ error = None
    /\ total_usage = ZeroUsage
    /\ calls = NoCalls
    /\ builds = 0
    /\ saves = 0
    /\ saved = <<>>
    /\ tempDir = TRUE
    /\ question = NoQuestion
    /\ outcomes = <<>>
    /\ invocations = 0
    /\ reports = 0
    /\ summary = NoSummary
    /\ cleanups = 0
    /\ records = <<>>
    /\ order = <<>>
    /\ content = NoContent
    /\ chunks = <<>>

\* what no step of the pipeline touches
PipelineFrame ==
    UNCHANGED << run, reindex, model_config, environ, cacheIndex, cacheDocs,
                 existsResult, files, tasks, completion, documents,
                 vector_store, engine, calls, builds, saves, saved, llm,
                 tempDir, question, outcomes, reports, summary, cleanups,
                 content, chunks >>

\* interactive_query line 25, rag_pipeline lines 69-70: query enters the
\* callback context, whose counters start at zero, and invokes the chain
Query(text) ==
    /\ pc = "pipeline"
    /\ chain.calls < MaxQuestions
    /\ chain' = [chain EXCEPT !.calls = @ + 1, !.question = text,
                              !.context = <<>>, !.prompt = <<>>,
                              !.message = <<>>, !.cb = ZeroUsage]
    /\ invocations' = invocations + 1
    /\ pc' = "retrieving"
    /\ UNCHANGED << error, total_usage, records, order >>
    /\ PipelineFrame

\* line 41: the first step of the chain, the retriever fills the context
\* and the question is passed through
ChainRetrieves ==
    /\ pc = "retrieving"
    /\ chain' = [chain EXCEPT !.context = RetrievedDocs(engine, chain.question)]
    /\ pc' = "prompting"
    /\ UNCHANGED << error, total_usage, records, order, invocations >>
    /\ PipelineFrame

\* the chain as it would be if the prompt were rendered without the
\* retrieved context
ChainPrompts_OmitsContext ==
    /\ pc = "prompting"
    /\ chain' = [chain EXCEPT !.prompt = Render(<<>>, chain.question)]
    /\ pc' = "invoking"
    /\ UNCHANGED << error, total_usage, records, order, invocations >>
    /\ PipelineFrame

\* line 42: the prompt template is rendered with the context and the
\* question
ChainPrompts ==
    /\ pc = "prompting"
    /\ chain' = [chain EXCEPT !.prompt = Render(chain.context, chain.question)]
    /\ pc' = "invoking"
    /\ UNCHANGED << error, total_usage, records, order, invocations >>
    /\ PipelineFrame

\* line 43: the model is invoked with the prompt; the callback counts the
\* usage of the request
ChainInvokes(message) ==
    /\ pc = "invoking"
    /\ chain' = [chain EXCEPT !.invoked = @ + 1, !.message = message,
                              !.cb = UpdateUsage(chain.cb, message.usage)]
    /\ pc' = "parsing"
    /\ UNCHANGED << error, total_usage, records, order, invocations >>
    /\ PipelineFrame

\* the retriever or the model raises: the chain stops and query raises
ChainRaises ==
    /\ pc \in {"retrieving", "invoking"}
    /\ error' = "chain error"
    /\ pc' = "raised"
    /\ UNCHANGED << chain, total_usage, records, order, invocations >>
    /\ PipelineFrame

\* line 44 and lines 72-78: the output parser yields the text and query
\* returns it with the usage dict; interactive_query line 26: the loop
\* merges the usage
QueryReturnsUsage ==
    /\ pc = "parsing"
    /\ chain' = [chain EXCEPT !.returns = @ + 1,
                              !.response = ParseStr(chain.message),
                              !.usage = UsageOf(chain.cb)]
    /\ total_usage' = UpdateUsage(total_usage, UsageOf(chain.cb))
    /\ records' = Append(records, UsageOf(chain.cb))
    /\ order' = Append(order, Len(records) + 1)
    /\ pc' = "answered"
    /\ UNCHANGED << error, invocations >>
    /\ PipelineFrame

\* get_retrieved_docs as it would be if it ran the whole chain
GetRetrievedDocs_RunsChain ==
    /\ pc = "answered"
    /\ chain' = [chain EXCEPT !.retrievals = @ + 1, !.invoked = @ + 1,
                              !.docs = RetrievedDocs(engine, chain.question)]
    /\ pc' = "pipeline"
    /\ UNCHANGED << error, total_usage, records, order, invocations >>
    /\ PipelineFrame

\* interactive_query line 39, rag_pipeline line 57: the retriever alone
GetRetrievedDocs ==
    /\ pc = "answered"
    /\ chain' = [chain EXCEPT !.retrievals = @ + 1,
                              !.docs = RetrievedDocs(engine, chain.question)]
    /\ pc' = "pipeline"
    /\ UNCHANGED << error, total_usage, records, order, invocations >>
    /\ PipelineFrame

\* interactive_query lines 33-38: the documents are not asked for
NextQuestion ==
    /\ pc = "answered"
    /\ pc' = "pipeline"
    /\ UNCHANGED << chain, error, total_usage, records, order, invocations >>
    /\ PipelineFrame

NextQuery ==
    \/ \E text \in SampleQuestions : Query(text)
    \/ ChainRetrieves
    \/ ChainPrompts
    \/ \E message \in SampleMessages : ChainInvokes(message)
    \/ ChainRaises
    \/ QueryReturnsUsage
    \/ GetRetrievedDocs
    \/ NextQuestion

SpecQuery == InitQuery /\ [][NextQuery]_vars

(***************************************************************************)
(* main(): the run of process_s3_bucket_async, then the interactive        *)
(* session run_interactive_query, then the finally block.                  *)
(***************************************************************************)
\* what questionary.text(...).ask() can return: None when the prompt is
\* cancelled, the empty string, the sentinel in lower and in mixed case, a
\* word that only starts like the sentinel, and a question
SampleAnswers ==
    { [bound |-> TRUE, cancelled |-> TRUE, text |-> <<>>],
      [bound |-> TRUE, cancelled |-> FALSE, text |-> <<>>],
      [bound |-> TRUE, cancelled |-> FALSE, text |-> <<"q", "u", "i", "t">>],
      [bound |-> TRUE, cancelled |-> FALSE, text |-> <<"Q", "u", "I", "T">>],
      [bound |-> TRUE, cancelled |-> FALSE, text |-> <<"q", "u", "i", "t", "e">>],
      [bound |-> TRUE, cancelled |-> FALSE, text |-> <<"w", "h", "y", "?">>] }

\* the sentinel test as it would be without lower()
IsQuit_CaseSensitive(q) ==
    q.cancelled \/ q.text = <<>> \/ q.text = <<"q", "u", "i", "t">>

\* the sentinel test as it would be without `not question`
IsQuit_SentinelOnly(q) == Lower(q.text) = <<"q", "u", "i", "t">>

\* line 19: not question or question.lower() == "quit"
IsQuit(q) ==
    q.cancelled \/ q.text = <<>> \/ Lower(q.text) = <<"q", "u", "i", "t">>

\* the usage dicts RAGPipeline.query returns: all five fields
QueryUsages == {u \in SampleUsages : DOMAIN u = UsageFields}

\* the locals of process_s3_bucket_async are gone once it has returned or
\* raised
DropLocals ==
    /\ existsResult' = FALSE
    /\ files' = <<>>
    /\ tasks' = <<>>
    /\ completion' = <<>>
    /\ documents' = <<>>
    /\ vector_store' = NoStore

\* what no step of the session touches
SessionFrame ==
    UNCHANGED << run, reindex, model_config, environ, cacheIndex, cacheDocs,
                 existsResult, files, tasks, completion, documents,
                 vector_store, engine, calls, builds, saves, saved, llm,
                 content, chunks, chain >>

\* main, line 191: run_interactive_query(rag, pipeline._update_usage)
EnterLoop ==
    /\ pc = "returned"
    /\ pc' = "ask"
    /\ DropLocals
    /\ UNCHANGED << run, reindex, model_config, environ, cacheIndex, cacheDocs,
                    engine, error, total_usage, calls, builds, saves, saved,
                    beyond >>

\* lines 14-21: the prompt returns a; the sentinel breaks the loop
Ask(a) ==
    /\ pc = "ask"
    /\ IsQuit(a) \/ Len(outcomes) < MaxQuestions
    /\ question' = a
    /\ pc' = IF IsQuit(a) THEN "quit" ELSE "query"
    /\ UNCHANGED << error, total_usage, tempDir, outcomes, invocations, reports,
                    summary, cleanups, records, order >>
    /\ SessionFrame

\* a query as it would be if a failed invocation were retried once
QueryRaises_Retries ==
    /\ pc = "query"
    /\ invocations' = invocations + 2
    /\ reports' = reports + 1
    /\ outcomes' = Append(outcomes, "failed")
    /\ question' = NoQuestion
    /\ pc' = "ask"
    /\ UNCHANGED << error, total_usage, tempDir, summary, cleanups, records,
                    order >>
    /\ SessionFrame

\* the loop as it would be without the except clause: the error of a
\* question leaves run_interactive_query
QueryRaises_Propagates ==
    /\ pc = "query"
    /\ invocations' = invocations + 1
    /\ reports' = reports
    /\ outcomes' = Append(outcomes, "failed")
    /\ question' = NoQuestion
    /\ error' = "query failed"
    /\ pc' = "raised"
    /\ UNCHANGED << total_usage, tempDir, summary, cleanups, records, order >>
    /\ SessionFrame

\* a failed query as it would be if the requests it made were counted
QueryRaises_CountsUsage ==
    /\ pc = "query"
    /\ invocations' = invocations + 1
    /\ reports' = reports + 1
    /\ outcomes' = Append(outcomes, "failed")
    /\ question' = NoQuestion
    /\ total_usage' = [total_usage EXCEPT !.successful_requests = @ + 1]
    /\ pc' = "ask"
    /\ UNCHANGED << error, tempDir, summary, cleanups, records, order >>
    /\ SessionFrame

\* lines 25 and 45-50: rag.query raises (chain.invoke was called once);
\* the except clause logs and prints the error, and the loop goes on
QueryRaises ==
    /\ pc = "query"
    /\ invocations' = invocations + 1
    /\ reports' = reports + 1
    /\ outcomes' = Append(outcomes, "failed")
    /\ question' = NoQuestion
    /\ pc' = "ask"
    /\ UNCHANGED << error, total_usage, tempDir, summary, cleanups, records,
                    order >>
    /\ SessionFrame

\* lines 25-31: rag.query returns the answer and its usage; the usage is
\* merged and the answer printed
QueryReturns(usage) ==
    /\ pc = "query"
    /\ invocations' = invocations + 1
    /\ total_usage' = UpdateUsage(total_usage, usage)
    /\ records' = Append(records, usage)
    /\ order' = Append(order, Len(records) + 1)
    /\ pc' = "confirm"
    /\ UNCHANGED << error, tempDir, question, outcomes, reports, summary,
                    cleanups >>
    /\ SessionFrame

\* the user interrupts the process while rag.query runs: KeyboardInterrupt
\* is no Exception, so neither except clause catches it
QueryInterrupted ==
    /\ pc = "query"
    /\ invocations' = invocations + 1
    /\ outcomes' = Append(outcomes, "interrupted")
    /\ question' = NoQuestion
    /\ error' = "KeyboardInterrupt"
    /\ pc' = "raised"
    /\ UNCHANGED << total_usage, tempDir, reports, summary, cleanups, records,
                    order >>
    /\ SessionFrame

\* lines 33-38: the confirm prompt; without show_docs the question is done
Confirm(show_docs) ==
    /\ pc = "confirm"
    /\ IF show_docs
       THEN /\ pc' = "retrieve"
            /\ UNCHANGED << question, outcomes >>
       ELSE /\ pc' = "ask"
            /\ question' = NoQuestion
            /\ outcomes' = Append(outcomes, "answered")
    /\ UNCHANGED << error, total_usage, tempDir, invocations, reports, summary,
                    cleanups, records, order >>
    /\ SessionFrame

\* lines 39-44: get_retrieved_docs returns and the documents are printed
RetrieveReturns ==
    /\ pc = "retrieve"
    /\ pc' = "ask"
    /\ question' = NoQuestion
    /\ outcomes' = Append(outcomes, "answered")
    /\ UNCHANGED << error, total_usage, tempDir, invocations, reports, summary,
                    cleanups, records, order >>
    /\ SessionFrame

\* lines 39 and 45-50: get_retrieved_docs raises; reported like a failed
\* query
RetrieveRaises ==
    /\ pc = "retrieve"
    /\ pc' = "ask"
    /\ question' = NoQuestion
    /\ reports' = reports + 1
    /\ outcomes' = Append(outcomes, "failed")
    /\ UNCHANGED << error, total_usage, tempDir, invocations, summary, cleanups,
                    records, order >>
    /\ SessionFrame

\* the finally block as it would be without the call of cleanup()
Cleanup_Skipped ==
    /\ pc \in {"quit", "raised"}
    /\ tempDir' = tempDir
    /\ cleanups' = cleanups
    /\ pc' = "cleaned"
    /\ DropLocals
    /\ question' = NoQuestion
    /\ UNCHANGED << run, reindex, model_config, environ, cacheIndex, cacheDocs,
                    engine, error, total_usage, calls, builds, saves, saved,
                    llm, outcomes, invocations, reports, summary, records,
                    order, content, chunks, chain >>

\* main, lines 195-197, and cleanup, lines 135-140: the finally block is
\* entered when the loop returned and when an exception propagates (the
\* locals of the calls that ended are gone); it removes the directory temp
Cleanup ==
    /\ pc \in {"quit", "raised"}
    /\ tempDir' = FALSE
    /\ cleanups' = cleanups + 1
    /\ pc' = "cleaned"
    /\ DropLocals
    /\ question' = NoQuestion
    /\ UNCHANGED << run, reindex, model_config, environ, cacheIndex, cacheDocs,
                    engine, error, total_usage, calls, builds, saves, saved,
                    llm, outcomes, invocations, reports, summary, records,
                    order, content, chunks, chain >>

\* main, lines 198-205: the summary of total_usage is logged, and main
\* returns or re-raises
Summary ==
    /\ pc = "cleaned"
    /\ summary' = [reported |-> TRUE, usage |-> total_usage]
    /\ pc' = "exit"
    /\ UNCHANGED << error, total_usage, tempDir, question, outcomes,
                    invocations, reports, cleanups, records, order >>
    /\ SessionFrame

NextMain ==
    \/ Next
    \/ EnterLoop
    \/ \E a \in SampleAnswers : Ask(a)
    \/ QueryRaises
    \/ \E usage \in QueryUsages : QueryReturns(usage)
    \/ QueryInterrupted
    \/ \E show_docs \in BOOLEAN : Confirm(show_docs)
    \/ RetrieveReturns
    \/ RetrieveRaises
    \/ Cleanup
    \/ Summary

\* one run of main()
SpecMain == Init /\ [][NextMain]_vars

\* main() goes on through its finally block once it is entered
SpecMainFair == SpecMain /\ WF_vars(Cleanup) /\ WF_vars(Summary)

(***************************************************************************)
(* Properties.                                                             *)
(***************************************************************************)
\* the run took the ingestion path and its join has returned
Joined ==
    /\ calls.list = 1
    /\ pc \in {"build", "save_index", "save_docs", "engine", "returned", "raised"}

SomeUnitFailed == \E i \in 1..Len(tasks) : tasks[i].status = "failed"

SomeUnitProduced ==
    \E i \in 1..Len(tasks) : tasks[i].status = "done" /\ tasks[i].result # <<>>

\* the chunks the units that did not fail returned, counted unit by unit
SumChunks(ts) ==
    LET F[i \in 0..Len(ts)] ==
            IF i = 0 THEN 0
            ELSE F[i - 1] + (IF ts[i].status = "done" THEN Len(ts[i].result) ELSE 0)
    IN  F[Len(ts)]

ConfigError == ~create_model(model_config, environ).ok

\* C1: on the ingestion path a failed unit neither cancels a sibling nor
\* aborts the batch: once the join has returned with a failed unit and a
\* unit that produced a chunk, every unit has finished, no chunk of a failed
\* file and every chunk of the other files is in documents, the index is
\* built from documents, the empty-corpus error is not raised, and the call
\* returns an engine over that index (unless the model configuration is
\* rejected by create_model).
C1_UnitFailureIsolated ==
    (Joined /\ SomeUnitFailed /\ SomeUnitProduced) =>
        /\ error # EmptyCorpus
        /\ \A i \in 1..Len(tasks) : tasks[i].status \in {"done", "failed"}
        /\ \A i \in 1..Len(tasks) :
              tasks[i].status = "failed" =>
                  \A d \in 1..Len(documents) : documents[d].key # tasks[i].key
        /\ \A i \in 1..Len(tasks) :
              tasks[i].status = "done" =>
                  \A c \in 1..Len(tasks[i].result) :
                      \E d \in 1..Len(documents) : documents[d] = tasks[i].result[c]
        /\ pc # "build" =>
              /\ calls.build = 1
              /\ vector_store = FromDocuments(documents, builds)
        /\ pc = "raised" => ConfigError
        /\ pc = "returned" => engine = vector_store

C1_Witness ==
    /\ pc = "returned"
    /\ calls.list = 1
    /\ SomeUnitFailed
    /\ SomeUnitProduced
    /\ engine.some

\* C2: whenever a file was processed successfully, the chunk list handed to
\* the index builder is as long as the sum of the chunk counts of the files
\* that did not fail, in whatever order the units finished.
C2_AggregateLength ==
    (Joined /\ \E i \in 1..Len(tasks) : tasks[i].status = "done") =>
        /\ Len(documents) = SumChunks(tasks)
        /\ calls.build = 1 =>
              /\ Len(vector_store.index) = SumChunks(tasks)
              /\ Len(vector_store.docstore) = SumChunks(tasks)

C2_Witness ==
    /\ pc = "save_index"
    /\ Len(tasks) = 2
    /\ completion = <<2, 1>>
    /\ Len(tasks[1].result) = 1
    /\ Len(tasks[2].result) = 2
    /\ Len(vector_store.index) = 3

\* C3: when no unit produced a chunk (every file failed, was unsupported or
\* empty, or no file key was listed), the call raises the empty-corpus
\* ValueError; it builds no index, saves nothing and returns no engine.
C3_EmptyCorpusRaises ==
    (calls.list = 1 /\ pc # "gather" /\ ~SomeUnitProduced) =>
        /\ pc = "raised"
        /\ error = EmptyCorpus
        /\ documents = <<>>
        /\ calls.build = 0
        /\ calls.save = 0
        /\ ~vector_store.some
        /\ ~engine.some

C3_Witness ==
    /\ pc = "raised"
    /\ error = EmptyCorpus
    /\ Len(tasks) = 2
    /\ tasks[1].status = "failed"
    /\ tasks[2].status = "done"
    /\ Route(tasks[2].key) = "unsupported"

\* C4: when exists() reported a cache and reindex is false, the run loads
\* the cache and goes on to the engine: it lists nothing, fetches nothing,
\* builds nothing and saves nothing, and the engine it returns is bound to
\* the store load() made of the cache.
C4_CacheHitSkipsIngestion ==
    (~reindex /\ existsResult) =>
        /\ pc \in {"load", "engine", "returned", "raised"}
        /\ calls.list = 0
        /\ files = <<>>
        /\ tasks = <<>>
        /\ calls.build = 0
        /\ calls.save = 0
        /\ pc # "load" => calls.load = 1 /\ vector_store = load
        /\ pc = "raised" => ConfigError
        /\ pc = "returned" => engine.some /\ engine = load

C4_Witness ==
    /\ ~reindex
    /\ existsResult
    /\ pc = "returned"
    /\ calls.load = 1
    /\ engine.docstore = saved[Len(saved)].docstore

\* C5: with reindex true the cache is never loaded, also when exists()
\* reported one: the bucket is listed once, every unit is fetched, and on
\* success the store built from documents is the one in both cache files
\* and the one bound to the returned engine.
C5_ReindexRebuilds ==
    reindex =>
        /\ calls.load = 0
        /\ pc # "load"
        /\ pc \in {"gather", "build", "save_index", "save_docs", "engine",
                   "returned", "raised"} => calls.list = 1
        /\ pc \in {"engine", "returned"} =>
              /\ calls.build = 1
              /\ calls.save = 1
              /\ \A i \in 1..Len(tasks) : tasks[i].fetches = 1
              /\ vector_store = FromDocuments(documents, builds)
              /\ cacheIndex = File(saves, vector_store.index)
              /\ cacheDocs = File(saves, vector_store.docstore)
        /\ pc = "returned" => engine = vector_store

C5_Witness ==
    /\ reindex
    /\ existsResult
    /\ pc = "returned"
    /\ engine.some
    /\ cacheIndex.tag = saves

\* C6: the cache check gets true from exists() exactly when both cache
\* files are present, and false when none or only one of them is.
C6_ExistsIffBothFiles ==
    [][(pc = "check" /\ pc' \in {"load", "list"}) =>
           (existsResult' = (cacheIndex.present /\ cacheDocs.present))]_vars

C6_Witness ==
    /\ pc = "list"
    /\ ~reindex
    /\ ~existsResult
    /\ cacheIndex.present
    /\ ~cacheDocs.present

\* C7: exists() reports a usable cache only if both cache files were
\* written by the same completed save().
C7_ReportedCacheFromOneSave ==
    (pc \in {"load", "list"} /\ existsResult) => cacheIndex.tag = cacheDocs.tag

\* C8: round trip: when both cache files come from one completed save(),
\* load() yields a store with the position map of the store that was saved
\* and, for every query, the same retrieved ids in the same rank order; so
\* does the engine of a run that took the cache.
C8_RoundTrip ==
    (cacheIndex.present /\ cacheDocs.present /\ cacheIndex.tag = cacheDocs.tag) =>
        LET original == saved[Len(saved)]
        IN  /\ load.index_to_docstore_id = original.index_to_docstore_id
            /\ \A q \in 0..MaxQuery : Retrieve(load, q) = Retrieve(original, q)
            /\ (pc = "returned" /\ calls.load = 1) =>
                  \A q \in 0..MaxQuery : Retrieve(engine, q) = Retrieve(original, q)

C8_Witness ==
    /\ pc = "returned"
    /\ calls.load = 1
    /\ cacheIndex.tag = cacheDocs.tag
    /\ Len(engine.index) >= 2
    /\ engine.index_to_docstore_id = saved[Len(saved)].index_to_docstore_id
    /\ Retrieve(engine, 0) # Retrieve(engine, 1)

\* C9: a completed save() replaces the cache: what load() yields then is
\* exactly the vectors and the docstore entries of the store just saved, and
\* no docstore entry of a store saved earlier.
C9_SaveReplacesSlot ==
    (pc = "engine" /\ calls.save = 1) =>
        /\ load.some
        /\ load.index = vector_store.index
        /\ load.docstore = vector_store.docstore
        /\ \A a \in 1..(Len(saved) - 1) :
              \A e \in 1..Len(saved[a].docstore) :
                  \A l \in 1..Len(load.docstore) :
                      load.docstore[l].id # saved[a].docstore[e].id

C9_Witness ==
    /\ pc = "engine"
    /\ calls.save = 1
    /\ Len(saved) >= 2
    /\ Len(saved[Len(saved) - 1].docstore) > Len(load.docstore)

\* C10: a configuration error is raised before any ingestion work: when the
\* call has raised the error of create_model, nothing was listed, fetched,
\* built or saved.
C10_ConfigErrorBeforeIngestion ==
    (pc = "raised" /\ error \in {UnsupportedProvider, ApiKeyNotFound}) =>
        /\ calls.list = 0
        /\ \A i \in 1..Len(tasks) : tasks[i].fetches = 0
        /\ calls.build = 0
        /\ calls.save = 0


\* the environment variable create_model reads for the configured provider
KeyFromEnv ==
    GetEnv(environ, PROVIDER_CONFIGS[model_config.provider].api_key_env)

\* C11: create_model fails fast.  A provider that is not in the registry
\* raises 'Unsupported provider: <provider>', whatever keys the
\* configuration and the environment hold (the provider is checked before
\* the key is resolved); a provider of the registry for which neither the
\* configuration nor the provider's environment variable supplies a key
\* raises 'API key not found for provider <provider>'.
C11_CreateModelFailsFast ==
    pc \in {"model", "model_error"} =>
        /\ model_config.provider \notin DOMAIN PROVIDER_CONFIGS =>
              /\ pc = "model_error"
              /\ error = UnsupportedProvider
              /\ llm.provider = model_config.provider
        /\ ( /\ model_config.provider \in DOMAIN PROVIDER_CONFIGS
             /\ ~Truthy(model_config.api_key)
             /\ ~Truthy(KeyFromEnv) ) =>
              /\ pc = "model_error"
              /\ error = ApiKeyNotFound
              /\ llm.provider = model_config.provider

\* an unknown provider with no key anywhere is reported as unsupported
C11_Witness ==
    /\ pc = "model_error"
    /\ model_config.provider = "mistral"
    /\ model_config.api_key = None
    /\ environ.DEEPSEEK_API_KEY = None
    /\ environ.OPENAI_API_KEY = None
    /\ error = UnsupportedProvider
    /\ llm.provider = "mistral"

\* C12: explicit overrides take precedence.  For both registered
\* providers the model is constructed with config.api_key when that is
\* set and with the provider's environment variable otherwise, and with
\* config.api_base when that is set and with the registry default
\* otherwise ("set" is Python truthiness: neither None nor "").
C12_OverridesTakePrecedence ==
    (pc \in {"model", "model_error"}
        /\ model_config.provider \in DOMAIN PROVIDER_CONFIGS) =>
        /\ Truthy(model_config.api_key) =>
              pc = "model" /\ llm.api_key = model_config.api_key
        /\ (~Truthy(model_config.api_key) /\ Truthy(KeyFromEnv)) =>
              pc = "model" /\ llm.api_key = KeyFromEnv
        /\ (pc = "model" /\ Truthy(model_config.api_base)) =>
              llm.api_base = model_config.api_base
        /\ (pc = "model" /\ ~Truthy(model_config.api_base)) =>
              llm.api_base = (IF model_config.provider = "deepseek"
                              THEN "https://api.deepseek.com"
                              ELSE "https://api.openai.com/v1")

\* both overrides given while the environment holds another key
C12_Witness ==
    /\ pc = "model"
    /\ model_config.provider = "openai"
    /\ model_config.api_key = "sk-arg"
    /\ environ.OPENAI_API_KEY = "sk-env-openai"
    /\ model_config.api_base = "https://proxy.example/v1"
    /\ llm.api_key = "sk-arg"
    /\ llm.api_base = "https://proxy.example/v1"

\* the exact sum of one field over the records merged so far
SumField(field) ==
    LET F[k \in 0..Len(order)] ==
            IF k = 0 THEN 0 ELSE F[k - 1] + Get(records[order[k]], field)
    IN  F[Len(order)]

\* C13: merging usage records is field-wise addition with missing fields
\* as zero, commutative and associative: after any records were merged, in
\* any order, each of the five counters of total_usage equals the sum of
\* that field over the merged records.
C13_TotalsAreSums ==
    pc = "merge" =>
        \A field \in UsageFields : total_usage[field] = SumField(field)

\* C20: the fan-out join is a full barrier.  While units are in flight
\* nothing is built or saved; once the call is past the join (building,
\* saving, constructing the engine, returned or raised on the ingestion
\* path) every scheduled unit has finished, successfully or not, so no
\* index is built or saved from partial results and the call does not
\* return on the first completion or failure.
C20_JoinIsFullBarrier ==
    /\ pc = "gather" =>
          /\ calls.build = 0
          /\ calls.save = 0
          /\ vector_store = NoStore
          /\ documents = <<>>
    /\ (calls.list = 1 /\ pc # "gather") =>
          /\ \A i \in 1..Len(tasks) : tasks[i].status \in {"done", "failed"}
          /\ Len(completion) = Len(tasks)

\* the first unit to finish failed, the build started after the other one
C20_Witness ==
    /\ pc = "build"
    /\ Len(tasks) = 2
    /\ completion = << 2, 1 >>
    /\ tasks[2].status = "failed"
    /\ tasks[1].status = "done"
    /\ tasks[1].result # <<>>

\* the cache a run with reindex = false finds is missing or unreadable
CacheUnusable ==
    \/ ~cacheIndex.present
    \/ ~cacheDocs.present
    \/ ~cacheIndex.readable
    \/ ~cacheDocs.readable

\* C17: a cache I/O error is treated as a cache miss.  A run with
\* reindex = false that finds the cache missing or unreadable goes on to
\* list and reindex: it does not attempt the load, and no error of reading
\* the cache is raised.  (Up to the build the cache directory is as the
\* cache check found it.)
C17_CacheErrorIsMiss ==
    /\ (~reindex /\ CacheUnusable /\ pc \in {"load", "list", "gather", "build"})
          => pc # "load"
    /\ pc = "raised" => error # CacheReadError

\* C18: the chunks produced for ingestion cover every character of the
\* extracted text (the first starts at 0, the last ends at the end, none
\* starts after the one before it ends), none is empty, none is longer
\* than chunk_size, and a text no longer than chunk_size yields at least
\* one chunk, one of which holds the whole text.
C18_ChunksCoverAndFit ==
    pc = "chunked" =>
        /\ \A i \in 1..Len(chunks) :
              /\ chunks[i].to - chunks[i].from > 0
              /\ chunks[i].to - chunks[i].from <= chunk_size
        /\ content.length > 0 =>
              /\ Len(chunks) > 0
              /\ chunks[1].from = 0
              /\ chunks[Len(chunks)].to = content.length
              /\ \A i \in 2..Len(chunks) : chunks[i].from <= chunks[i - 1].to
        /\ content.length <= chunk_size =>
              /\ Len(chunks) >= 1
              /\ \E i \in 1..Len(chunks) :
                    chunks[i].from = 0 /\ chunks[i].to = content.length

\* the last question of the session ended in a reported error
LastFailed(o) == o # <<>> /\ o[Len(o)] = "failed"

\* the reports a session with these outcomes printed
FailedIn(o) == Cardinality({k \in 1..Len(o) : o[k] = "failed"})

\* C14: a query-time error is isolated to its question.  The step in
\* which a question fails, in rag.query or in get_retrieved_docs, prints
\* one error report and returns to the prompt: the session is not
\* terminated, no error reaches main(), and the engine is untouched.  As
\* this holds for every question, every failed question of a session has
\* been reported.
C14_QueryErrorIsolated ==
    /\ [][(outcomes' # outcomes /\ LastFailed(outcomes')) =>
              /\ pc' = "ask"
              /\ reports' = reports + 1
              /\ error' = None
              /\ engine' = engine
              /\ tempDir' = tempDir
              /\ summary' = NoSummary]_vars
    /\ [](reports = FailedIn(outcomes))

\* a question was answered after an earlier question of the session failed
C14_Witness ==
    /\ pc = "ask"
    /\ outcomes = << "failed", "answered" >>
    /\ reports = 1
    /\ error = None

\* the spellings of the sentinel among the sample answers
QuitSpellings == { <<"q", "u", "i", "t">>, <<"Q", "u", "I", "T">> }

\* the exact sum of an integer counter over all usage records of the run
Accumulated(field) ==
    LET F[k \in 0..Len(records)] ==
            IF k = 0 THEN 0 ELSE F[k - 1] + Get(records[k], field)
    IN  F[Len(records)]

\* C15: entering 'quit' in any letter case at the prompt terminates the
\* session without another query, whatever questions came before; the
\* termination is followed by the removal of the temporary directory and
\* by the usage summary, which reports the five totals of total_usage,
\* the token and request counters being the sums over the run.
C15_QuitTerminates ==
    /\ [][(pc = "ask" /\ pc' # "ask" /\ question'.text \in QuitSpellings) =>
              pc' = "quit" /\ invocations' = invocations]_vars
    /\ [](pc = "quit" => invocations = Len(outcomes))
    /\ (pc = "quit") ~>
          ( /\ pc = "exit"
            /\ ~tempDir
            /\ cleanups = 1
            /\ summary.reported
            /\ summary.usage = total_usage
            /\ \A field \in UsageFields \ {"total_cost"} :
                  summary.usage[field] = Accumulated(field) )

\* the session was quit after a failed and an answered question, the run
\* had built an index
C15_Witness ==
    /\ pc = "exit"
    /\ error = None
    /\ outcomes = << "failed", "answered" >>
    /\ Len(records) = 2
    /\ summary.reported
    /\ summary.usage.successful_requests = 2
    /\ ~tempDir

\* C16: a failure that propagates to main() terminates the run (no
\* prompt and no query follow it), and cleanup() still runs: whether
\* process_s3_bucket_async or the session returned or raised, main() ends
\* with the temporary directory removed by one call of cleanup().
C16_CleanupOnEveryPath ==
    /\ [](error # None => pc \in {"raised", "cleaned", "exit"})
    /\ [](pc = "exit" => ~tempDir /\ cleanups = 1)
    /\ (pc = "raised") ~> (pc = "exit" /\ error # None /\ ~tempDir)

\* process_s3_bucket_async raised the empty-corpus error, main() is done
C16_Witness ==
    /\ pc = "exit"
    /\ error = EmptyCorpus
    /\ ~tempDir
    /\ cleanups = 1
    /\ outcomes = <<>>

\* C19: an error of the model invocation inside RAGPipeline.query reaches
\* the caller, which reports it; the failed query invoked the chain once
\* (no retry), and left the engine, its model and the usage totals as
\* they were, so that a later query runs on the same engine.
C19_QueryErrorPropagates ==
    [][(pc = "query" /\ outcomes' = Append(outcomes, "failed")) =>
          /\ invocations' = invocations + 1
          /\ reports' = reports + 1
          /\ engine' = engine
          /\ llm' = llm
          /\ total_usage' = total_usage
          /\ records' = records]_vars

\* the query after a failed query returned an answer from the same engine
C19_Witness ==
    /\ pc = "confirm"
    /\ outcomes = << "failed" >>
    /\ invocations = 2
    /\ engine.some
    /\ llm.ok

\* C23: async_process_file routes a key by its suffix, whatever the letter
\* case: a unit that has routed a key made of a stem and one of the sample
\* endings took the branch the rule names for that ending.  An unsupported
\* key makes the unit return the empty list after logging the warning: it
\* starts no extraction and does not fail; no other key logs the warning.
C23_RoutesBySuffix ==
    \A i \in 1..Len(tasks) :
        /\ tasks[i].route # "none" =>
              \A stem \in SampleStems : \A e \in SampleEndings :
                  tasks[i].key = stem \o e.ext => tasks[i].route = e.route
        /\ tasks[i].route = "unsupported" =>
              /\ tasks[i].status = "done"
              /\ tasks[i].result = <<>>
              /\ tasks[i].warned
              /\ tasks[i].extractions = 0
        /\ tasks[i].warned => tasks[i].route = "unsupported"

\* a key with an upper-case image suffix under a stem that holds '.pdf'
C23_Witness ==
    /\ Len(tasks) = 1
    /\ tasks[1].key = <<"x", ".", "p", "d", "f", ".", "J", "P", "E", "G">>
    /\ tasks[1].route = "image"
    /\ tasks[1].status = "done"
    /\ ~tasks[1].warned

\* the listed keys that do not end with '/', in listing order
NonDirectoryKeys == SelectSeq(files, LAMBDA k : k[Len(k)] # "/")

\* C24: on the miss/reindex path one unit is scheduled for every listed
\* key that does not end with '/', in listing order, and none for a key
\* that ends with '/'.  No unit fetches more than once, and once the join
\* has returned every unit has fetched exactly once.
C24_OneUnitPerFileKey ==
    calls.list = 1 =>
        /\ Len(tasks) = Len(NonDirectoryKeys)
        /\ \A i \in 1..Len(tasks) :
              /\ tasks[i].key = NonDirectoryKeys[i]
              /\ tasks[i].fetches <= 1
              /\ pc # "gather" => tasks[i].fetches = 1

\* a listing of a file key and a directory key, after the join
C24_Witness ==
    /\ pc = "build"
    /\ Len(files) = 2
    /\ files[2] = <<"e", "/">>
    /\ Len(tasks) = 1
    /\ tasks[1].key = files[1]
    /\ tasks[1].fetches = 1

\* C25: within a unit the fetch comes first.  A unit that has routed or
\* started an extraction has fetched; a unit whose fetch failed has
\* neither routed nor extracted and holds no chunks; a unit that was
\* skipped as unsupported has fetched before.
C25_FetchBeforeExtraction ==
    \A i \in 1..Len(tasks) :
        /\ (tasks[i].route # "none" \/ tasks[i].extractions > 0
                \/ tasks[i].status \in {"extracting", "done"}) =>
              tasks[i].fetches = 1
        /\ (tasks[i].status = "failed" /\ tasks[i].route = "none") =>
              /\ tasks[i].fetches = 1
              /\ tasks[i].extractions = 0
              /\ tasks[i].result = <<>>
        /\ tasks[i].extractions > 0 => tasks[i].route \notin {"none", "unsupported"}
        /\ tasks[i].status = "scheduled" =>
              tasks[i].fetches = 0 /\ tasks[i].extractions = 0

\* one unit failed in its fetch, the other was fetched and then skipped
C25_Witness ==
    /\ Len(tasks) = 2
    /\ tasks[1].status = "failed"
    /\ tasks[1].route = "none"
    /\ tasks[1].extractions = 0
    /\ tasks[2].route = "unsupported"
    /\ tasks[2].fetches = 1
    /\ tasks[2].warned

\* the chunks of the units that did not fail, unit by unit in task order
InTaskOrder ==
    LET F[i \in 0..Len(tasks)] ==
            IF i = 0 THEN <<>>
            ELSE IF tasks[i].status = "failed" THEN F[i - 1]
            ELSE F[i - 1] \o tasks[i].result
    IN  F[Len(tasks)]

\* C30: the aggregated chunk sequence is determined by the listing: once
\* the join has returned, documents holds the chunks grouped by file in
\* the order of the listing, each file's chunks in the order its unit
\* returned them, whatever the order in which the units finished.
C30_AggregationInListingOrder ==
    Joined =>
        /\ documents = InTaskOrder
        /\ \A i, j \in 1..Len(tasks) :
              (i < j) =>
                  \A d, e \in 1..Len(documents) :
                      (documents[d].key = tasks[i].key
                          /\ documents[e].key = tasks[j].key) => d < e

\* the second unit finished first; its chunks come second all the same
C30_Witness ==
    /\ pc = "build"
    /\ completion = << 2, 1 >>
    /\ Len(tasks[1].result) = 2
    /\ Len(tasks[2].result) = 1
    /\ documents = tasks[1].result \o tasks[2].result

\* the VectorIndex invariant of a store: every id of the position map is
\* the id of a docstore entry, and there are as many vectors as entries
VectorIndexInvariant(store) ==
    /\ \A p \in DOMAIN store.index_to_docstore_id :
          \E j \in 1..Len(store.docstore) :
              store.docstore[j].id = store.index_to_docstore_id[p]
    /\ Len(store.index) = Len(store.docstore)

\* C21: whatever the content of the cache directory for which exists() is
\* true, the store load() returns satisfies the VectorIndex invariant:
\* the store a run is about to load (when its files can be read), and the
\* engine of a run that took the cache.
C21_LoadedIndexWellFormed ==
    /\ (pc = "load" /\ exists /\ ~loadRaises) => VectorIndexInvariant(load)
    /\ (pc = "returned" /\ calls.load = 1) => VectorIndexInvariant(engine)

\* C26: the cache is not keyed by corpus or configuration.  A run with
\* reindex = false that finds both cache files takes the cache whatever
\* model configuration it was given (and without listing any bucket or
\* prefix): it lists nothing and builds nothing, and the engine it returns
\* is over the cached index, the same for every configuration.
C26_CacheNotKeyed ==
    (existsResult /\ ~reindex /\ pc # "check") =>
        /\ calls.list = 0
        /\ calls.build = 0
        /\ files = <<>>
        /\ pc = "returned" =>
              /\ calls.load = 1
              /\ engine.index = cacheIndex.data
              /\ engine.docstore = cacheDocs.data
              /\ engine.index = EarlierStore.index
              /\ engine.docstore = EarlierStore.docstore

\* a run configured for another provider than the first sample run
\* returns an engine over the cached index
C26_Witness ==
    /\ pc = "returned"
    /\ ~reindex
    /\ calls.load = 1
    /\ calls.list = 0
    /\ model_config.provider = "openai"
    /\ engine.index = EarlierStore.index

\* C22: total_usage is written by the top-level driver only.  Every step
\* that changes it is either the build that follows the join (all units
\* have finished, and the usage added is the one create_vector_store
\* returned) or the return of a query in the serial loop; no step of a
\* per-file unit changes it, and it keeps its initial value until the join
\* has returned.
C22_UsageWrittenByDriverOnly ==
    /\ [][total_usage' # total_usage =>
              /\ tasks' = tasks
              /\ completion' = completion
              /\ \/ /\ pc = "build"
                    /\ \A i \in 1..Len(tasks) : tasks[i].status \in {"done", "failed"}
                    /\ total_usage' = UpdateUsage(total_usage, EmbeddingUsage(documents))
                 \/ /\ pc = "query"
                    /\ pc' = "confirm"]_vars
    /\ [][(tasks' # tasks \/ completion' # completion) =>
              total_usage' = total_usage]_vars
    /\ [](pc \in {"check", "load", "list", "gather"} => total_usage = ZeroUsage)

\* the totals hold the usage of the build and that of one query
C22_Witness ==
    /\ pc = "confirm"
    /\ calls.build = 1
    /\ invocations = 1
    /\ Len(records) = 2
    /\ total_usage = UpdateUsage(UpdateUsage(ZeroUsage, records[1]), records[2])
    /\ total_usage.successful_requests = 2

\* C27: one call of RAGPipeline.query invokes the model exactly once,
\* after the retrieval, with the prompt rendered from the template: the
\* retrieved chunks as the context and the question.  It returns the text
\* of the model's message with the usage of that one request.
C27_QueryInvokesModelOnce ==
    /\ [][chain'.invoked # chain.invoked =>
              /\ chain'.invoked = chain.invoked + 1
              /\ chain.invoked = chain.calls - 1
              /\ chain.context = RetrievedDocs(engine, chain.question)
              /\ Len(chain.prompt) = 4
              /\ chain.prompt[2].part = "Context:"
              /\ chain.prompt[2].docs = chain.context
              /\ chain.prompt[3].part = "Question:"
              /\ chain.prompt[3].text = chain.question]_vars
    /\ [][chain'.returns # chain.returns =>
              /\ chain'.returns = chain.returns + 1
              /\ chain'.invoked = chain.calls
              /\ chain'.response = chain.message.content
              /\ chain'.usage = chain.message.usage]_vars
    /\ [](pc \in {"answered", "pipeline"} =>
              chain.invoked = chain.calls /\ chain.returns = chain.calls)
    /\ [](chain.invoked <= chain.calls)

\* the second call returned: two invocations, a context of TopK chunks
C27_Witness ==
    /\ pc = "answered"
    /\ chain.calls = 2
    /\ chain.returns = 2
    /\ chain.invoked = 2
    /\ Len(chain.context) = TopK
    /\ chain.prompt[2].docs = chain.context
    /\ chain.response = <<"n", "o">>
    /\ chain.usage.total_cost = 2

\* C28: get_retrieved_docs performs only the retrieval.  The step that
\* calls it, after a query that returned and whose usage the loop merged,
\* returns the retrieved documents, invokes neither the chain nor the
\* model, produces no usage record and leaves the running totals as
\* they are.
C28_RetrievalOnly ==
    [][chain'.retrievals # chain.retrievals =>
          /\ chain'.docs = RetrievedDocs(engine, chain.question)
          /\ chain'.invoked = chain.invoked
          /\ invocations' = invocations
          /\ chain'.cb = chain.cb
          /\ chain'.usage = chain.usage
          /\ records' = records
          /\ order' = order
          /\ total_usage' = total_usage]_vars

\* the documents of an answered question were retrieved; the totals hold
\* the usage of the one query
C28_Witness ==
    /\ pc = "pipeline"
    /\ chain.retrievals = 1
    /\ chain.returns = 1
    /\ chain.invoked = 1
    /\ chain.docs # <<>>
    /\ Len(records) = 1
    /\ total_usage = chain.usage

\* C29: the builder is defensive: create_vector_store called with zero
\* chunks fails with the EmptyCorpus error; it builds no index and fails
\* with no other error.
C29_BuilderRejectsEmpty ==
    (calls.build = 1 /\ documents = <<>>) =>
        /\ pc = "raised"
        /\ error = EmptyCorpus
        /\ ~vector_store.some

\* the pcs of the interactive loop
InLoop == {"ask", "query", "confirm", "retrieve"}

\* the pcs after the loop was left by the sentinel
AfterLoop == {"quit", "cleaned", "exit"}

\* C32: in the interactive loop the running totals change only through a
\* query that returned.  A question that fails leaves all five counters
\* (and the list of merged records) as they are; a query that returns
\* adds one usage record, in the step that goes on to show the answer;
\* no other step of the loop changes the totals, so that the records
\* merged are those of the build and of the queries that returned.
C32_UsageOnlyFromReturnedQuery ==
    /\ [][(pc \in InLoop /\ Len(outcomes') = Len(outcomes) + 1
               /\ outcomes'[Len(outcomes')] \in {"failed", "interrupted"}) =>
              /\ \A field \in UsageFields : total_usage'[field] = total_usage[field]
              /\ records' = records]_vars
    /\ [][(pc \in InLoop /\ total_usage' # total_usage) =>
              /\ pc = "query"
              /\ pc' = "confirm"
              /\ Len(records') = Len(records) + 1
              /\ \A field \in UsageFields \ {"total_cost"} :
                    total_usage'[field] =
                        total_usage[field] + records'[Len(records')][field]]_vars
    /\ [][(pc = "query" /\ pc' = "confirm") => Len(records') = Len(records) + 1]_vars
    /\ [][(pc \in InLoop /\ ~(pc = "query" /\ pc' = "confirm")) =>
              records' = records]_vars

\* a failed question, then an answered one: one query record was merged
C32_Witness ==
    /\ pc = "ask"
    /\ outcomes = << "failed", "answered" >>
    /\ invocations = 2
    /\ Len(records) = calls.build + 1
    /\ total_usage.successful_requests = calls.build + 1
    /\ total_usage.prompt_tokens = records[Len(records)].prompt_tokens

\* C34: an empty answer (the empty string, or no answer because the
\* prompt was cancelled) ends the session as the sentinel does: the loop
\* is left for the same place, rag.query is not called for it, and no
\* question and no query follow.
C34_EmptyAnswerTerminates ==
    /\ [][(pc = "ask" /\ pc' # "ask"
               /\ (question'.cancelled \/ question'.text = <<>>)) =>
              /\ pc' = "quit"
              /\ invocations' = invocations
              /\ outcomes' = outcomes
              /\ total_usage' = total_usage]_vars
    /\ [][(pc \in AfterLoop) =>
              ( /\ pc' \in AfterLoop
                /\ invocations' = invocations
                /\ outcomes' = outcomes )]_vars
    /\ [](pc = "quit" => invocations = Len(outcomes))

\* the empty string was entered after an answered question
C34_Witness ==
    /\ pc = "quit"
    /\ question.bound
    /\ ~question.cancelled
    /\ question.text = <<>>
    /\ outcomes = << "answered" >>
    /\ invocations = 1

\* C31: a call of process_s3_bucket_async that fails before save() is
\* reached leaves the cache directory as it was, also under reindex =
\* true.  No step before the two writes of save() changes a cache file,
\* so when the call has raised without a save, the directory is one of
\* those a call may find, and a complete cache still loads to the store
\* that was saved in it.
C31_FailureLeavesCache ==
    /\ [][(pc \notin {"save_index", "save_docs"}) =>
              (cacheIndex' = cacheIndex /\ cacheDocs' = cacheDocs)]_vars
    /\ []((pc = "raised" /\ calls.save = 0 /\ run = 1) =>
              /\ [index |-> cacheIndex, docs |-> cacheDocs] \in InitialCaches
              /\ (cacheIndex.present /\ cacheDocs.present) =>
                    /\ load.index = EarlierStore.index
                    /\ load.docstore = EarlierStore.docstore
                    /\ load.index_to_docstore_id = EarlierStore.index_to_docstore_id)

\* C33: when exists() was true at the cache check and a cache file is gone
\* by the time load() checks again, load() returns None and the run
\* falls through to the ingestion: it lists the bucket, and it never
\* returns an engine without an index.  The engine it returns is over the
\* index it built from the aggregated chunks; a run that raises instead
\* raises the empty-corpus error (or, with a model configuration
\* create_model rejects, that configuration's error).
C33_NoneFallsThrough ==
    /\ [][(pc = "load" /\ pc' # "load"
               /\ ~(cacheIndex.present /\ cacheDocs.present)) =>
              /\ pc' = "list"
              /\ ~vector_store'.some
              /\ engine' = engine
              /\ error' = error]_vars
    /\ [](pc = "returned" => engine.some)
    /\ []((calls.load = 1 /\ calls.list = 1) =>
              /\ pc = "returned" =>
                    /\ calls.build = 1
                    /\ calls.save = 1
                    /\ documents # <<>>
                    /\ Len(engine.index) = Len(documents)
                    /\ \A i \in 1..Len(documents) :
                          engine.docstore[i].doc = documents[i]
              /\ pc = "raised" =>
                    \/ error = EmptyCorpus /\ calls.build = 0
                    \/ ConfigError /\ calls.save = 1)

\* docs.pkl went away between the check and the load: the run listed the
\* bucket and returned an engine over the index it built
C33_Witness ==
    /\ pc = "returned"
    /\ ~reindex
    /\ existsResult
    /\ calls.load = 1
    /\ calls.list = 1
    /\ calls.build = 1
    /\ engine.some
    /\ engine.docstore[1].id = << 1, 1 >>
    /\ cacheIndex.tag = 1

====
